---- MODULE Spec2Model ----
(***************************************************************************)
(* A model of the reliable file transfer of src/src/lib: the packet codec  *)
(* (lib/helpers/message.py), the Stop-and-Wait and Selective Repeat        *)
(* engines (lib/protocols), the server dispatcher, sessions and storage    *)
(* (lib/server/main.py) and the client (lib/client/main.py).               *)
(***************************************************************************)
EXTENDS Integers, Sequences, FiniteSets, TLC

(***************************************************************************)
(* Bounds of the model.                                                    *)
(***************************************************************************)
\* longest payload, in bytes, the codec specification draws
MaxPayloadLen == 2

(***************************************************************************)
(* Flags of the protocol (RDTFlags).                                       *)
(***************************************************************************)
SYN == 1
ACK == 2
FIN == 4
DATA == 8
ERR == 16

VARIABLES
    \* ---- codec specification ----
    cpc,        \* position of the codec run: "built", "encoded", "decoded"
    cpkt,       \* the packet built by a constructor
    cbytes,     \* the frame: the bytes to_bytes gave, possibly with a flipped bit
    cflip,      \* 0, or 1 + the index (from 0) of the payload bit that was flipped
    cdec,       \* what from_bytes returned: a packet or None
    ccodec,     \* the codec of the run: "crc32" (lib/helpers) or "md5" (helpers)
    \* ---- engine specification ----
    eng,        \* a Selective Repeat engine run on its own (None in the others)
    \* ---- the server ----
    sock,           \* datagrams received for the server, not yet taken: [data, addr]
    workers,        \* each pool worker: [pc, packet, address, ctx]
    client_states,  \* RDTProtocol.client_states: address -> context (0: no entry)
    ctxs,           \* the context dicts ever created, by identity
    nctx,           \* how many contexts were created
    temps,          \* the temp file of each context's upload: [exists, data]
    storage,        \* storage_dir/<name>: [exists, data]
    rwlock,         \* FileLockManager.file_locks: name -> [readers, writer]
    senders,        \* the _send_job thread of each context
    \* ---- the network and the clients ----
    to_client,      \* each client socket's receive buffer
    clients,        \* each client process
    lost,           \* datagrams lost so far
    \* ---- history ----
    hist            \* what the claims observe of the last handler run

codecVars == <<cpc, cpkt, cbytes, cflip, cdec, ccodec, eng>>
protoVars == <<sock, workers, client_states, ctxs, nctx, temps, storage,
               rwlock, senders, to_client, clients, lost, hist>>
vars == <<cpc, cpkt, cbytes, cflip, cdec, ccodec, eng,
          sock, workers, client_states, ctxs, nctx, temps, storage,
          rwlock, senders, to_client, clients, lost, hist>>

\* Python's None
None == [none |-> TRUE]

(***************************************************************************)
(* Bytes and bits.  TLC's integers are 32-bit signed, so a 32-bit unsigned *)
(* register (the CRC) is kept as its two 16-bit halves [hi, lo].           *)
(***************************************************************************)
\* a ^ b on 4-bit values, bit by bit
XorNibbles ==
    LET XorBits(a, b) == (a + b) % 2
    IN  [a \in 0..15, b \in 0..15 |->
            XorBits(a % 2, b % 2) + 2 * XorBits((a \div 2) % 2, (b \div 2) % 2)
            + 4 * XorBits((a \div 4) % 2, (b \div 4) % 2) + 8 * XorBits(a \div 8, b \div 8)]

\* a ^ b on 16-bit values
Xor(a, b) ==
    XorNibbles[a % 16, b % 16] + 16 * XorNibbles[(a \div 16) % 16, (b \div 16) % 16]
    + 256 * XorNibbles[(a \div 256) % 16, (b \div 256) % 16]
    + 4096 * XorNibbles[(a \div 4096) % 16, (b \div 4096) % 16]

\* a ^ b on 32-bit registers
Xor32(a, b) == [hi |-> Xor(a.hi, b.hi), lo |-> Xor(a.lo, b.lo)]

\* one of the 8 shift steps of CRC-32 for a byte, with zlib's reflected
\* polynomial 0xEDB88320 (0xEDB8 = 60856, 0x8320 = 33568)
CrcShift(c) ==
    LET shifted == [hi |-> c.hi \div 2, lo |-> (c.lo \div 2) + 32768 * (c.hi % 2)]
    IN  IF c.lo % 2 = 1 THEN Xor32(shifted, [hi |-> 60856, lo |-> 33568]) ELSE shifted

\* zlib's table: the register after the 8 shift steps of each byte value
CrcTable ==
    [n \in 0..255 |->
        CrcShift(CrcShift(CrcShift(CrcShift(
        CrcShift(CrcShift(CrcShift(CrcShift([hi |-> 0, lo |-> n]))))))))]

\* the CRC register after one more byte: table[(c ^ b) & 0xFF] ^ (c >> 8)
CrcByte(c, b) ==
    Xor32(CrcTable[Xor(c.lo % 256, b)],
          [hi |-> c.hi \div 256, lo |-> (c.lo \div 256) + 256 * (c.hi % 256)])

RECURSIVE CrcRun(_, _)
\* the register after the bytes, one half of them after the other (the register
\* is compared in between so that the halves are evaluated in turn)
CrcRun(c, bytes) ==
    IF bytes = <<>> THEN c
    ELSE IF Len(bytes) = 1 THEN CrcByte(c, bytes[1])
    ELSE LET m == Len(bytes) \div 2
             mid == CrcRun(c, SubSeq(bytes, 1, m))
         IN  IF mid.lo < 0 THEN mid ELSE CrcRun(mid, SubSeq(bytes, m + 1, Len(bytes)))

\* zlib.crc32(bytes) & 0xFFFFFFFF, as a 32-bit register
crc32(bytes) ==
    LET AllOnes32 == [hi |-> 65535, lo |-> 65535]
    IN  Xor32(CrcRun(AllOnes32, bytes), AllOnes32)

\* n.to_bytes(w, 'big') for 0 <= n < 2^31
to_bytes_big(n, w) == [i \in 1..w |-> (n \div (2 ^ (8 * (w - i)))) % 256]

\* int.from_bytes(bytes, 'big')
RECURSIVE from_bytes_big(_)
from_bytes_big(bytes) ==
    IF bytes = <<>> THEN 0
    ELSE 256 * from_bytes_big(SubSeq(bytes, 1, Len(bytes) - 1)) + bytes[Len(bytes)]

\* a 32-bit register as its 4 bytes, big-endian (checksum.to_bytes(4, 'big'))
Bits32ToBytes(c) == <<c.hi \div 256, c.hi % 256, c.lo \div 256, c.lo % 256>>

\* data[a:b] of Python (indices from 0, b exclusive, cut at the end)
Slice(data, a, b) ==
    LET e == IF b > Len(data) THEN Len(data) ELSE b
    IN  IF a >= e THEN <<>> ELSE SubSeq(data, a + 1, e)

(***************************************************************************)
(* The packet (RDTHeader + RDTPacket) and its constructors.                *)
(***************************************************************************)
\* RDTPacket(payload): a fresh header; data_length is set here and nowhere else
RDTPacket(payload) ==
    [sequence_number |-> 0, ack_number |-> 0, flags |-> 0,
     data_length |-> Len(payload), payload |-> payload]

\* (flags & flag) == flag, for a flag of one bit
has_flag(packet, flag) == (packet.flags \div flag) % 2 = 1

\* flags |= flag
set_flag(packet, flag) ==
    IF has_flag(packet, flag) THEN packet
    ELSE [packet EXCEPT !.flags = @ + flag]

create_data_packet(seq_num, payload) ==
    [RDTPacket(<<>>) EXCEPT !.sequence_number = seq_num, !.flags = DATA,
                            !.payload = payload]

create_ack_packet(ack_num, seq_num) ==
    [RDTPacket(<<>>) EXCEPT !.sequence_number = seq_num, !.ack_number = ack_num,
                            !.flags = ACK, !.payload = <<>>]

create_sync_packet(seq_num) ==
    [RDTPacket(<<>>) EXCEPT !.sequence_number = seq_num, !.flags = SYN,
                            !.payload = <<>>]

\* ack_num is accepted and not used
create_end_packet(ack_num, seq_num) ==
    [RDTPacket(<<>>) EXCEPT !.sequence_number = seq_num, !.flags = FIN,
                            !.payload = <<>>]

create_error_packet(ack_num, err_msg, seq_num) ==
    [RDTPacket(<<>>) EXCEPT !.sequence_number = seq_num, !.ack_number = ack_num,
                            !.flags = ERR, !.payload = err_msg]

\* the payload "<operation>:<filename>:<protocol>"
Colon == 58
create_operation_packet(seq_num, operation, filename, protocol) ==
    LET operation_data == operation \o <<Colon>> \o filename \o <<Colon>> \o protocol
    IN  set_flag([RDTPacket(operation_data) EXCEPT !.sequence_number = seq_num], DATA)

(***************************************************************************)
(* to_bytes / from_bytes with the CRC-32 checksum.                         *)
(***************************************************************************)
\* the mutant: a checksum over the header fields only
calculate_checksum_header_only(packet) ==
    crc32(to_bytes_big(packet.sequence_number, 4)
          \o to_bytes_big(packet.ack_number, 4)
          \o to_bytes_big(packet.flags, 2))

calculate_checksum(packet) ==
    crc32(to_bytes_big(packet.sequence_number, 4)
          \o to_bytes_big(packet.ack_number, 4)
          \o to_bytes_big(packet.flags, 2)
          \o packet.payload)

\* the frame: seq(4) ack(4) flags(2) checksum(4) len(payload)(2) payload
to_bytes(packet) ==
    to_bytes_big(packet.sequence_number, 4)
    \o to_bytes_big(packet.ack_number, 4)
    \o to_bytes_big(packet.flags, 2)
    \o Bits32ToBytes(calculate_checksum(packet))
    \o to_bytes_big(Len(packet.payload), 2)
    \o packet.payload

HeaderLen == 16

from_bytes(data) ==
    IF Len(data) < HeaderLen THEN None
    ELSE
      LET seq_num == from_bytes_big(Slice(data, 0, 4))
          ack_num == from_bytes_big(Slice(data, 4, 8))
          flags == from_bytes_big(Slice(data, 8, 10))
          received_checksum == Slice(data, 10, 14)
          payload_len == from_bytes_big(Slice(data, 14, 16))
      IN  IF Len(data) < HeaderLen + payload_len THEN None
          ELSE
            LET payload == Slice(data, HeaderLen, HeaderLen + payload_len)
                temp_packet == [RDTPacket(<<>>) EXCEPT
                                   !.sequence_number = seq_num,
                                   !.ack_number = ack_num,
                                   !.flags = flags,
                                   !.payload = payload]
            IN  IF Bits32ToBytes(calculate_checksum(temp_packet)) # received_checksum
                THEN None
                ELSE temp_packet

\* the frame with bit k (from 0) of its payload flipped; the payload starts
\* after the first header bytes of the frame
FlipPayloadBit(data, header, k) ==
    LET i == header + 1 + (k \div 8)
        b == k % 8
    IN  [data EXCEPT ![i] = IF (@ \div (2 ^ (b))) % 2 = 1 THEN @ - (2 ^ (b)) ELSE @ + (2 ^ (b))]

(***************************************************************************)
(* The digest-appended codec of helpers/message.py: the header is          *)
(* struct '!IIHH' (seq, ack, flags, data_length), then the payload, then   *)
(* the MD5 of the payload as 32 ASCII hex characters.                      *)
(***************************************************************************)
\* a & b on 16-bit values: a + b = (a ^ b) + 2 * (a & b)
And(a, b) == (a + b - Xor(a, b)) \div 2

\* a + b mod 2^32 on 32-bit registers
Add32(a, b) ==
    LET lo == a.lo + b.lo
        hi == a.hi + b.hi + (lo \div 65536)
    IN  [hi |-> hi % 65536, lo |-> lo % 65536]

\* floor(2^32 * abs(sin(i + 1))) as <<hi, lo>>, i = 0..63
Md5K ==
    <<
    <<55146, 42104>>, <<59591, 46934>>, <<9248, 28891>>, <<49597, 52974>>,
    <<62844, 4015>>, <<18311, 50730>>, <<43056, 17939>>, <<64838, 38145>>,
    <<27008, 39128>>, <<35652, 63407>>, <<65535, 23473>>, <<35164, 55230>>,
    <<27536, 4386>>, <<64920, 29075>>, <<42617, 17294>>, <<18868, 2081>>,
    <<63006, 9570>>, <<49216, 45888>>, <<9822, 23121>>, <<59830, 51114>>,
    <<54831, 4189>>, <<580, 5203>>, <<55457, 59009>>, <<59347, 64456>>,
    <<8673, 52710>>, <<49975, 2006>>, <<62677, 3463>>, <<17754, 5357>>,
    <<43491, 59653>>, <<64751, 41976>>, <<26479, 729>>, <<36138, 19594>>,
    <<65530, 14658>>, <<34673, 63105>>, <<28061, 24866>>, <<64997, 14348>>,
    <<42174, 59972>>, <<19422, 53161>>, <<63163, 19296>>, <<48831, 48240>>,
    <<10395, 32454>>, <<60065, 10234>>, <<54511, 12421>>, <<1160, 7429>>,
    <<55764, 53305>>, <<59099, 39397>>, <<8098, 31992>>, <<50348, 22117>>,
    <<62505, 8772>>, <<17194, 65431>>, <<43924, 9127>>, <<64659, 41017>>,
    <<25947, 22979>>, <<36620, 52370>>, <<65519, 62589>>, <<34180, 24017>>,
    <<28584, 32335>>, <<65068, 59104>>, <<41729, 17172>>, <<19976, 4513>>,
    <<63315, 32386>>, <<48442, 62005>>, <<10967, 53947>>, <<60294, 54161>>
    >>

Md5S ==
    <<7, 12, 17, 22, 7, 12, 17, 22, 7, 12, 17, 22, 7, 12, 17, 22,
      5, 9, 14, 20, 5, 9, 14, 20, 5, 9, 14, 20, 5, 9, 14, 20,
      4, 11, 16, 23, 4, 11, 16, 23, 4, 11, 16, 23, 4, 11, 16, 23,
      6, 10, 15, 21, 6, 10, 15, 21, 6, 10, 15, 21, 6, 10, 15, 21>>

\* step i of the block: a, b, c, d <- d, b + rotl(a + F(b, c, d) + K[i] + M[g], S[i]), b, c
\* (the sums are compared one after the other so that they are evaluated in turn)
Md5Step(s, block, i) ==
    LET Not16(x) == 65535 - x
        \* the four round functions, on 16-bit halves
        F(b, c, d) ==
            IF i < 16 THEN And(b, c) + And(Not16(b), d)
            ELSE IF i < 32 THEN And(b, d) + And(c, Not16(d))
            ELSE IF i < 48 THEN Xor(Xor(b, c), d)
            ELSE Xor(c, b + Not16(d) - And(b, Not16(d)))
        \* the message word used by step i, little-endian
        g == IF i < 16 THEN i
             ELSE IF i < 32 THEN (5 * i + 1) % 16
             ELSE IF i < 48 THEN (3 * i + 5) % 16
             ELSE (7 * i) % 16
        word == [hi |-> block[4 * g + 3] + 256 * block[4 * g + 4],
                 lo |-> block[4 * g + 1] + 256 * block[4 * g + 2]]
        \* a rotated left by n bits, 0 < n < 32
        RotateLeft(x, n) ==
            LET h == IF n >= 16 THEN x.lo ELSE x.hi
                l == IF n >= 16 THEN x.hi ELSE x.lo
                r == n % 16
            IN  IF r = 0 THEN [hi |-> h, lo |-> l]
                ELSE [hi |-> ((h * (2 ^ (r))) % 65536) + (l \div (2 ^ (16 - r))),
                      lo |-> ((l * (2 ^ (r))) % 65536) + (h \div (2 ^ (16 - r)))]
        f == [hi |-> F(s.b.hi, s.c.hi, s.d.hi), lo |-> F(s.b.lo, s.c.lo, s.d.lo)]
        k == [hi |-> Md5K[i + 1][1], lo |-> Md5K[i + 1][2]]
        t1 == Add32(f, s.a)
        t2 == Add32(t1, k)
        t3 == Add32(t2, word)
        r == RotateLeft(t3, Md5S[i + 1])
    IN  IF f.lo < 0 \/ t1.lo < 0 \/ t2.lo < 0 \/ t3.lo < 0 \/ r.lo < 0 THEN s
        ELSE [a |-> s.d, d |-> s.c, c |-> s.b, b |-> Add32(s.b, r)]

RECURSIVE Md5Run(_, _, _, _)
\* steps i .. n - 1, one half of them after the other (the state is compared in
\* between so that the halves are evaluated in turn)
Md5Run(s, block, i, n) ==
    IF i = n THEN s
    ELSE IF n = i + 1 THEN Md5Step(s, block, i)
    ELSE LET m == (i + n) \div 2
             mid == Md5Run(s, block, i, m)
         IN  IF mid.b.lo < 0 THEN mid ELSE Md5Run(mid, block, m, n)

\* hashlib.md5(bytes).digest(), for a message of at most 55 bytes: one 64-byte
\* block (the message, 0x80, zeros, the bit length), the 64 steps from the
\* initial state, and the sums as bytes, little-endian
md5(bytes) ==
    LET block == [j \in 1..64 |->
                     IF j <= Len(bytes) THEN bytes[j]
                     ELSE IF j = Len(bytes) + 1 THEN 128
                     ELSE IF j = 57 THEN (8 * Len(bytes)) % 256
                     ELSE IF j = 58 THEN (8 * Len(bytes)) \div 256
                     ELSE 0]
        init == [a |-> [hi |-> 26437, lo |-> 8961], b |-> [hi |-> 61389, lo |-> 43913],
                 c |-> [hi |-> 39098, lo |-> 56574], d |-> [hi |-> 4146, lo |-> 21622]]
        s == Md5Run(init, block, 0, 64)
        Little(c) == <<c.lo % 256, c.lo \div 256, c.hi % 256, c.hi \div 256>>
    IN  Little(Add32(init.a, s.a)) \o Little(Add32(init.b, s.b))
        \o Little(Add32(init.c, s.c)) \o Little(Add32(init.d, s.d))

\* RDTPacket._calculate_payload_hash: hashlib.md5(payload).hexdigest().encode('ascii')
calculate_payload_hash(payload) ==
    LET HexDigit(n) == IF n < 10 THEN 48 + n ELSE 87 + n
        digest == md5(payload)
    IN  [i \in 1..(2 * Len(digest)) |->
            IF i % 2 = 1 THEN HexDigit(digest[(i + 1) \div 2] \div 16)
            ELSE HexDigit(digest[i \div 2] % 16)]

\* RDTPacket(RDTHeader(sequence_number, ack_number, flags), payload):
\* the constructor sets header.data_length = len(payload)
digest_packet(seq_num, ack_num, flags, payload) ==
    [sequence_number |-> seq_num, ack_number |-> ack_num, flags |-> flags,
     data_length |-> Len(payload), payload |-> payload]

digest_create_data_packet(seq_num, data) == digest_packet(seq_num, 0, DATA, data)

digest_create_ack_packet(ack_num, seq_num) == digest_packet(seq_num, ack_num, ACK, <<>>)

digest_create_sync_packet(ack_num, seq_num) == digest_packet(seq_num, ack_num, SYN, <<>>)

digest_create_end_packet(ack_num, seq_num) == digest_packet(seq_num, ack_num, FIN, <<>>)

\* the payload "<operation>:<filename>"
digest_create_operation_packet(seq_num, operation, filename) ==
    digest_packet(seq_num, 0, DATA, operation \o <<Colon>> \o filename)

\* RDTHeader.SIZE = struct.calcsize('!IIHH')
RDTHeaderSize == 12

\* the length of the hex digest
DigestSize == 32

\* RDTPacket.to_bytes: header.to_bytes() + payload + payload_hash
digest_to_bytes(packet) ==
    to_bytes_big(packet.sequence_number, 4)
    \o to_bytes_big(packet.ack_number, 4)
    \o to_bytes_big(packet.flags, 2)
    \o to_bytes_big(packet.data_length, 2)
    \o packet.payload
    \o calculate_payload_hash(packet.payload)

\* RDTPacket.from_bytes: the packet and its _stored_hash; None stands for the
\* ValueError raised on a short datagram
digest_from_bytes(data) ==
    IF Len(data) < RDTHeaderSize + DigestSize THEN None
    ELSE LET seq_num == from_bytes_big(Slice(data, 0, 4))
             ack_num == from_bytes_big(Slice(data, 4, 8))
             flags == from_bytes_big(Slice(data, 8, 10))
             data_length == from_bytes_big(Slice(data, 10, 12))
             payload == Slice(data, RDTHeaderSize, RDTHeaderSize + data_length)
         IN  [packet |-> digest_packet(seq_num, ack_num, flags, payload),
              stored_hash |-> Slice(data, Len(data) - DigestSize, Len(data))]

\* RDTPacket.verify_integrity
digest_verify_integrity(parsed) ==
    parsed.stored_hash = calculate_payload_hash(parsed.packet.payload)

\* what a receiver makes of a datagram (handle_packet of server/main.py):
\* from_bytes, then the packet is dropped unless verify_integrity() holds
digest_decode(data) ==
    LET parsed == digest_from_bytes(data)
    IN  IF parsed = None THEN None
        ELSE IF ~digest_verify_integrity(parsed) THEN None
        ELSE parsed.packet

(***************************************************************************)
(* Names, files and the datagrams in flight.                               *)
(***************************************************************************)
\* the operation, file and protocol names, one byte each: "U", "D", "X", "w", "r"
UPLOAD == <<85>>
DOWNLOAD == <<68>>
FileX == <<88>>
STOP_AND_WAIT == <<119>>
SELECTIVE_REPEAT == <<114>>

FileNames == {FileX}

\* the two client endpoints (ip, port)
Peers == {"A", "B"}

\* a file that does not exist, and one that holds data
Missing == [exists |-> FALSE, data |-> <<>>]
FileOf(data) == [exists |-> TRUE, data |-> data]

\* what from_bytes(to_bytes(packet)) gives the receiver: the packet with a fresh
\* header's data_length
Datagram(packet) == [packet EXCEPT !.data_length = 0]

\* the mutant: a datagram that fails the checksum is taken for a SYN
ParsePacket_unchecked(data) ==
    IF data = [corrupt |-> TRUE] THEN create_sync_packet(0) ELSE data

\* from_bytes of a received datagram: None when its checksum does not match
ParsePacket(data) == IF data = [corrupt |-> TRUE] THEN None ELSE data

\* the index of the first x in s, or 0
IndexOf(s, x) ==
    IF \E i \in 1..Len(s) : s[i] = x
    THEN CHOOSE i \in 1..Len(s) : s[i] = x /\ \A j \in 1..(i - 1) : s[j] # x
    ELSE 0

\* (operation, filename, protocol), or three empty parts for (None, None, None);
\* parts is data_str.split(':', 2)
parse_operation_packet(packet) ==
    LET s == packet.payload
        i == IndexOf(s, Colon)
        rest == SubSeq(s, i + 1, Len(s))
        j == IndexOf(rest, Colon)
        parts == IF i = 0 THEN <<s>>
                 ELSE IF j = 0 THEN <<SubSeq(s, 1, i - 1), rest>>
                 ELSE <<SubSeq(s, 1, i - 1), SubSeq(rest, 1, j - 1),
                        SubSeq(rest, j + 1, Len(rest))>>
    IN  IF s # <<>> /\ i # 0
        THEN [operation |-> parts[1], filename |-> parts[2],
              protocol |-> IF Len(parts) > 2 THEN parts[3] ELSE STOP_AND_WAIT]
        ELSE [operation |-> <<>>, filename |-> <<>>, protocol |-> <<>>]

(***************************************************************************)
(* The Stop-and-Wait engine (lib/protocols/stop_and_wait.py).              *)
(***************************************************************************)
StopAndWaitProtocol(max_retries) ==
    [kind |-> "stop_and_wait", max_retries |-> max_retries,
     current_seq |-> 0, expected_seq |-> 0,
     last_sent_packet |-> None, retries |-> 0,
     pending_ack_for_current |-> FALSE, external_ack_handling |-> FALSE]

\* the mutant: a replay is acknowledged with the sequence number still expected
sw_on_data_ack_expected(proto, packet) ==
    IF packet.sequence_number = proto.expected_seq
    THEN [proto |-> [proto EXCEPT !.expected_seq = (@ + 1) % 2],
          ack_num |-> packet.sequence_number,
          data_to_write |-> packet.payload,
          new_expected |-> (proto.expected_seq + 1) % 2]
    ELSE [proto |-> proto,
          ack_num |-> proto.expected_seq,
          data_to_write |-> <<>>,
          new_expected |-> proto.expected_seq]

\* on_data: (ack_number, data_to_write, new_expected_seq) and the engine after it
sw_on_data(proto, packet) ==
    IF packet.sequence_number = proto.expected_seq
    THEN [proto |-> [proto EXCEPT !.expected_seq = (@ + 1) % 2],
          ack_num |-> packet.sequence_number,
          data_to_write |-> packet.payload,
          new_expected |-> (proto.expected_seq + 1) % 2]
    ELSE [proto |-> proto,
          ack_num |-> (proto.expected_seq - 1) % 2,
          data_to_write |-> <<>>,
          new_expected |-> proto.expected_seq]

(***************************************************************************)
(* The Selective Repeat engine (lib/protocols/selective_repeat.py).  The   *)
(* dicts keyed by sequence number are functions; send_window keeps the     *)
(* dict's insertion order as a sequence of entries, and stamps lists its   *)
(* keys from the oldest timestamp to the newest.                           *)
(***************************************************************************)
SeqMod == 65536

SelectiveRepeatProtocol(max_retries, window_size) ==
    LET EmptyDict == [k \in {} |-> 0]
    IN  [kind |-> "selective_repeat", max_retries |-> max_retries,
         window_size |-> window_size,
         current_seq |-> 0, expected_seq |-> 0,
         send_window |-> <<>>, stamps |-> <<>>,
         receive_window |-> EmptyDict,
         ack_received |-> EmptyDict,
         duplicate_ack_count |-> EmptyDict,
         external_ack_handling |-> FALSE]

\* d[k] = v of a dict
DictSet(d, k, v) == [x \in (DOMAIN d) \cup {k} |-> IF x = k THEN v ELSE d[x]]

\* del d[k] (k may be absent)
DictDel(d, k) == [x \in (DOMAIN d) \ {k} |-> d[x]]

\* a flush that pops the expected frame and does not go on to the next
sr_flush_one(proto, data) ==
    IF proto.expected_seq \in DOMAIN proto.receive_window
    THEN [proto |-> [proto EXCEPT
                        !.receive_window = DictDel(@, proto.expected_seq),
                        !.expected_seq = (@ + 1) % SeqMod],
          data |-> data \o proto.receive_window[proto.expected_seq]]
    ELSE [proto |-> proto, data |-> data]

RECURSIVE sr_flush(_, _)
\* while expected_seq in receive_window: pop it, append its payload, advance
sr_flush(proto, data) ==
    IF proto.expected_seq \in DOMAIN proto.receive_window
    THEN sr_flush([proto EXCEPT
                      !.receive_window = DictDel(@, proto.expected_seq),
                      !.expected_seq = (@ + 1) % SeqMod],
                  data \o proto.receive_window[proto.expected_seq])
    ELSE [proto |-> proto, data |-> data]

\* on_data without the window test: every frame is buffered
sr_on_data_any_seq(proto, packet) ==
    LET seq == packet.sequence_number
        buffered == [proto EXCEPT !.receive_window = DictSet(@, seq, packet.payload)]
        flushed == sr_flush(buffered, <<>>)
    IN  [proto |-> flushed.proto,
         ack_num |-> seq,
         data_to_write |-> flushed.data,
         new_expected |-> flushed.proto.expected_seq]

sr_on_data(proto, packet) ==
    LET seq == packet.sequence_number
        base == proto.expected_seq
        buffered == IF (seq - base) % SeqMod < proto.window_size
                    THEN [proto EXCEPT !.receive_window = DictSet(@, seq, packet.payload)]
                    ELSE proto
        flushed == sr_flush(buffered, <<>>)
    IN  [proto |-> flushed.proto,
         ack_num |-> seq,
         data_to_write |-> flushed.data,
         new_expected |-> flushed.proto.expected_seq]

\* proto.on_data of whichever engine the session holds
on_data(proto, packet) ==
    IF proto.kind = "stop_and_wait" THEN sw_on_data(proto, packet)
    ELSE sr_on_data(proto, packet)


\* ---- the sending side of Selective Repeat ----
SeqRange(s) == {s[i] : i \in 1..Len(s)}

\* the keys of send_window, in the dict's order
WindowKeys(send_window) == [i \in 1..Len(send_window) |-> send_window[i].seq]

\* the sequence s without x
Without(s, x) == SelectSeq(s, LAMBDA e : e # x)

\* del send_window[seq]
WindowDel(send_window, seq) == SelectSeq(send_window, LAMBDA e : e.seq # seq)

\* send_window[seq] = entry: in place when the key is there, at the end when new
WindowSet(send_window, entry) ==
    IF \E i \in 1..Len(send_window) : send_window[i].seq = entry.seq
    THEN [i \in 1..Len(send_window) |->
             IF send_window[i].seq = entry.seq THEN entry ELSE send_window[i]]
    ELSE Append(send_window, entry)

\* send_packet of a window that is not full: the engine after it and the packet sent
sr_send_packet(proto, payload) ==
    LET seq_num == proto.current_seq
        packet == [create_data_packet(0, payload) EXCEPT
                      !.sequence_number = seq_num, !.ack_number = 0]
    IN  [proto |-> [proto EXCEPT
                      !.send_window = WindowSet(@, [seq |-> seq_num, packet |-> packet,
                                                    retries |-> 0]),
                      !.stamps = Append(Without(@, seq_num), seq_num),
                      !.ack_received = DictSet(@, seq_num, FALSE),
                      !.duplicate_ack_count = DictSet(@, seq_num, 0),
                      !.current_seq = (@ + 1) % SeqMod],
         out |-> <<packet>>]

RECURSIVE sr_slide_from(_, _)
sr_slide_from(proto, min_seq) ==
    IF min_seq \in DOMAIN proto.ack_received /\ proto.ack_received[min_seq]
    THEN sr_slide_from([proto EXCEPT
                           !.send_window = WindowDel(@, min_seq),
                           !.stamps = Without(@, min_seq),
                           !.ack_received = DictDel(@, min_seq),
                           !.duplicate_ack_count = DictDel(@, min_seq)],
                       (min_seq + 1) % SeqMod)
    ELSE proto

\* slide_send_window, from min(self.send_window.keys()), the numerically
\* smallest key
slide_send_window(proto) ==
    LET keys == SeqRange(WindowKeys(proto.send_window))
        min_seq == IF keys # {} THEN CHOOSE k \in keys : \A j \in keys : k <= j ELSE 0
    IN  sr_slide_from(proto, min_seq)

\* handle_timeout(seq_num): the engine after it, what was sent, and the result
sr_handle_timeout(proto, seq_num) ==
    IF seq_num \notin SeqRange(WindowKeys(proto.send_window))
    THEN [proto |-> proto, out |-> <<>>, ok |-> FALSE]
    ELSE LET entry == proto.send_window[CHOOSE i \in 1..Len(proto.send_window) :
                                            proto.send_window[i].seq = seq_num]
         IN  IF entry.retries >= proto.max_retries
             THEN [proto |-> [proto EXCEPT
                                !.send_window = WindowDel(@, seq_num),
                                !.stamps = Without(@, seq_num),
                                !.ack_received = DictDel(@, seq_num)],
                   out |-> <<>>, ok |-> FALSE]
             ELSE [proto |-> [proto EXCEPT
                                !.send_window =
                                    WindowSet(@, [entry EXCEPT !.retries = @ + 1]),
                                !.stamps = Append(Without(@, seq_num), seq_num)],
                   out |-> <<entry.packet>>, ok |-> TRUE]

\* _fast_retransmit (the later of the class's two definitions)
sr_fast_retransmit(proto, seq_num) ==
    IF seq_num \in SeqRange(WindowKeys(proto.send_window))
    THEN [proto |-> sr_handle_timeout(proto, seq_num).proto,
          out |-> sr_handle_timeout(proto, seq_num).out]
    ELSE [proto |-> proto, out |-> <<>>]

\* on_ack and _handle_ack: the engine after the ACK, what was resent, the result
sr_on_ack(proto, packet) ==
    LET ack_num == packet.ack_number
    IN  IF ~has_flag(packet, ACK) THEN [proto |-> proto, out |-> <<>>, ok |-> FALSE]
        ELSE IF ack_num \notin DOMAIN proto.ack_received
        THEN [proto |-> proto, out |-> <<>>, ok |-> FALSE]
        ELSE IF proto.ack_received[ack_num]
        THEN LET count == (IF ack_num \in DOMAIN proto.duplicate_ack_count
                           THEN proto.duplicate_ack_count[ack_num] ELSE 0) + 1
                 counted == [proto EXCEPT
                                !.duplicate_ack_count = DictSet(@, ack_num, count)]
             IN  IF count >= 3
                 THEN [proto |-> sr_fast_retransmit(counted, ack_num).proto,
                       out |-> sr_fast_retransmit(counted, ack_num).out,
                       ok |-> TRUE]
                 ELSE [proto |-> counted, out |-> <<>>, ok |-> TRUE]
        ELSE [proto |-> slide_send_window(
                            [proto EXCEPT
                                !.ack_received = DictSet(@, ack_num, TRUE),
                                !.duplicate_ack_count = DictSet(@, ack_num, 0)]),
              out |-> <<>>, ok |-> TRUE]

RECURSIVE sr_timeouts_over(_, _, _, _)
\* the loop of _check_timeouts over the window's items, for the expired keys
sr_timeouts_over(proto, keys, expired, out) ==
    IF keys = <<>> THEN [proto |-> proto, out |-> out]
    ELSE IF Head(keys) \in expired
    THEN LET r == sr_handle_timeout(proto, Head(keys))
             \* a False result: the key is removed from send_window and ack_received
             after == IF r.ok THEN r.proto
                      ELSE [r.proto EXCEPT
                               !.send_window = WindowDel(@, Head(keys)),
                               !.stamps = Without(@, Head(keys)),
                               !.ack_received = DictDel(@, Head(keys))]
         IN  sr_timeouts_over(after, Tail(keys), expired, out \o r.out)
    ELSE sr_timeouts_over(proto, Tail(keys), expired, out)

\* _check_timeouts (the later of the two definitions) when the k oldest
\* timestamps are older than the timeout
sr_check_timeouts(proto, k) ==
    sr_timeouts_over(proto, WindowKeys(proto.send_window),
                     SeqRange(SubSeq(proto.stamps, 1, k)), <<>>)

\* ---- the sending side of Stop-and-Wait ----
\* on_ack, called by the server's handler for a session's engine
sw_on_ack(proto, packet) ==
    IF ~has_flag(packet, ACK) THEN [proto |-> proto, ok |-> FALSE]
    ELSE IF packet.ack_number = proto.current_seq
    THEN [proto |-> [proto EXCEPT !.pending_ack_for_current = TRUE, !.retries = 0],
          ok |-> TRUE]
    ELSE [proto |-> proto, ok |-> FALSE]

\* the mutant: a timeout always retransmits
sw_handle_timeout_unbounded(proto) ==
    IF proto.last_sent_packet = None THEN [proto |-> proto, out |-> <<>>, ok |-> FALSE]
    ELSE [proto |-> [proto EXCEPT !.retries = @ + 1],
          out |-> <<proto.last_sent_packet>>, ok |-> TRUE]

\* handle_timeout: the engine after it, what was resent, the result
sw_handle_timeout(proto) ==
    IF proto.last_sent_packet = None THEN [proto |-> proto, out |-> <<>>, ok |-> FALSE]
    ELSE IF proto.retries >= proto.max_retries
    THEN [proto |-> proto, out |-> <<>>, ok |-> FALSE]
    ELSE [proto |-> [proto EXCEPT !.retries = @ + 1],
          out |-> <<proto.last_sent_packet>>, ok |-> TRUE]


(***************************************************************************)
(* The server's sessions (lib/server/main.py, RDTProtocol).                *)
(***************************************************************************)
\* the pool's size (server_config.WORKERS)
WORKERS == 3
Workers == 1..WORKERS

\* contexts the server may create in one run
MaxCtx == 2
CtxIds == 1..MaxCtx

\* max_retries of the engines: 60 and 3 in the source, bounded here
SwMaxRetries == 1
SrMaxRetries == 1
\* window_size of Selective Repeat: 8 in the source, bounded here
WindowSize == 2
\* bytes per chunk: file.read(1024) in the source, bounded here
ChunkSize == 1

\* the context _get_client_context creates ('proto', 'proto_name', 'download_ready'
\* and 'download_started' are keys added later; here they start empty)
NewContext ==
    [lock |-> 0, expected_seq |-> 0,
     current_operation |-> <<>>, current_filename |-> <<>>,
     file_handle |-> "none", connected |-> FALSE, temp_file_path |-> 0,
     proto_name |-> <<>>, proto |-> None,
     download_ready |-> FALSE, download_started |-> FALSE]

\* what a handler gives: the context after it, the datagrams sent to the peer and
\* the bytes written to the open temp file
Handled(cs, out, written) == [cs |-> cs, out |-> out, written |-> written]

\* handle_syn
\* a handle_syn that answers and connects but leaves expected_seq as it is
handle_syn_keep_seq(cs) ==
    Handled([cs EXCEPT !.connected = TRUE],
            <<set_flag(create_sync_packet(0), ACK)>>, <<>>)

handle_syn(cs) ==
    Handled([cs EXCEPT !.connected = TRUE, !.expected_seq = 1],
            <<set_flag(create_sync_packet(0), ACK)>>, <<>>)

\* handle_data while no operation is set: the operation packet.  c is the
\* context's identity (it names the temp file), exists whether the file is stored.
handle_operation(cs, c, packet, exists) ==
    LET expected_seq == cs.expected_seq
        seq_num == packet.sequence_number
        op == parse_operation_packet(packet)
        \* the engine created for the protocol (none for an unknown name)
        engine == IF op.protocol = STOP_AND_WAIT
                  THEN [StopAndWaitProtocol(SwMaxRetries) EXCEPT
                           !.external_ack_handling = TRUE, !.current_seq = 0]
                  ELSE IF op.protocol = SELECTIVE_REPEAT
                  THEN [SelectiveRepeatProtocol(SrMaxRetries, WindowSize) EXCEPT
                           !.current_seq = 2, !.external_ack_handling = TRUE]
                  ELSE None
        named == [cs EXCEPT
                    !.current_operation = op.operation,
                    !.current_filename = op.filename,
                    !.proto_name = op.protocol,
                    !.proto = engine,
                    !.expected_seq = IF op.protocol = STOP_AND_WAIT THEN 0
                                     ELSE IF op.protocol = SELECTIVE_REPEAT THEN 2
                                     ELSE @]
        ack == create_ack_packet(seq_num, 0)
    IN  IF expected_seq # 1 \/ seq_num # expected_seq THEN Handled(cs, <<>>, <<>>)
        ELSE IF op.operation = <<>> \/ op.filename = <<>>
        THEN Handled(cs, <<ack>>, <<>>)
        ELSE IF op.operation = UPLOAD
        \* _prepare_upload: the temp file, ACK(1); then the handler's own ACK
        THEN Handled([named EXCEPT !.temp_file_path = c, !.file_handle = "open"],
                     <<create_ack_packet(1, 0), ack>>, <<>>)
        ELSE IF op.operation = DOWNLOAD
        \* _prepare_download: ERR 003 and no ACK when the file is not there
        THEN IF ~exists
             THEN Handled(named,
                          <<create_error_packet(named.expected_seq, <<48, 48, 51, Colon>>, 0)>>,
                          <<>>)
             ELSE Handled([named EXCEPT !.download_ready = TRUE],
                          <<create_ack_packet(1, 0), ack>>, <<>>)
        ELSE Handled(named, <<ack>>, <<>>)

\* a data phase without the Selective Repeat test of the sequence number
handle_transfer_any_seq(cs, packet) ==
    LET seq_num == packet.sequence_number
        r == on_data([cs.proto EXCEPT !.expected_seq = cs.expected_seq], packet)
        writes == cs.current_operation = UPLOAD /\ r.data_to_write # <<>>
                  /\ cs.file_handle # "none"
        ack == create_ack_packet(r.ack_num, 0)
    IN  IF cs.proto_name = STOP_AND_WAIT /\ seq_num \notin {0, 1}
        THEN Handled(cs, <<>>, <<>>)
        ELSE IF cs.proto = None
        THEN Handled(cs, <<create_error_packet(cs.expected_seq, <<48, 48, 50, Colon>>, 0)>>,
                     <<>>)
        ELSE IF writes /\ cs.file_handle = "closed"
        THEN Handled([cs EXCEPT !.proto = r.proto, !.expected_seq = r.new_expected],
                     <<create_error_packet(cs.expected_seq, <<48, 48, 53, Colon>>, 0), ack>>,
                     <<>>)
        ELSE Handled([cs EXCEPT !.proto = r.proto, !.expected_seq = r.new_expected],
                     <<ack>>,
                     IF writes THEN r.data_to_write ELSE <<>>)

\* handle_data once the operation is set: the data phase
handle_transfer(cs, packet) ==
    LET seq_num == packet.sequence_number
        r == on_data([cs.proto EXCEPT !.expected_seq = cs.expected_seq], packet)
        writes == cs.current_operation = UPLOAD /\ r.data_to_write # <<>>
                  /\ cs.file_handle # "none"
        ack == create_ack_packet(r.ack_num, 0)
    IN  IF cs.proto_name = STOP_AND_WAIT /\ seq_num \notin {0, 1}
        THEN Handled(cs, <<>>, <<>>)
        ELSE IF cs.proto_name = SELECTIVE_REPEAT /\ seq_num < 2
        THEN Handled(cs, <<>>, <<>>)
        ELSE IF cs.proto = None
        THEN Handled(cs, <<create_error_packet(cs.expected_seq, <<48, 48, 50, Colon>>, 0)>>,
                     <<>>)
        ELSE IF writes /\ cs.file_handle = "closed"
        \* _handle_upload_data: the write raises, ERR 005 is sent, the ACK follows
        THEN Handled([cs EXCEPT !.proto = r.proto, !.expected_seq = r.new_expected],
                     <<create_error_packet(cs.expected_seq, <<48, 48, 53, Colon>>, 0), ack>>,
                     <<>>)
        ELSE Handled([cs EXCEPT !.proto = r.proto, !.expected_seq = r.new_expected],
                     <<ack>>,
                     IF writes THEN r.data_to_write ELSE <<>>)

\* a handle_data that answers a session that is not connected with an error
handle_data_answers_unconnected(cs, c, packet, exists) ==
    IF ~cs.connected
    THEN Handled(cs, <<create_error_packet(cs.expected_seq, <<48, 48, 50, Colon>>, 0)>>,
                 <<>>)
    ELSE IF cs.current_operation = <<>> THEN handle_operation(cs, c, packet, exists)
    ELSE handle_transfer(cs, packet)

\* handle_data
handle_data(cs, c, packet, exists) ==
    IF ~cs.connected THEN Handled(cs, <<>>, <<>>)
    ELSE IF cs.current_operation = <<>> THEN handle_operation(cs, c, packet, exists)
    ELSE handle_transfer(cs, packet)

\* the mutant: the FIN|ACK repeats the FIN's sequence number
fin_ack_same_seq(packet) == set_flag(create_end_packet(0, packet.sequence_number), ACK)

\* handle_fin's answer: FIN|ACK with the FIN's sequence number + 1
fin_ack(packet) == set_flag(create_end_packet(0, packet.sequence_number + 1), ACK)


(***************************************************************************)
(* The dispatcher: main's receive loop, the pool's workers, handle_packet. *)
(***************************************************************************)
IdleWorker == [pc |-> "idle", packet |-> None, address |-> "", ctx |-> 0]

\* The history variable: off in the specifications that do not observe it; in
\* the others, the last handler run: its kind, its packet, the datagrams it
\* sent, the bytes it wrote, expected_seq before and after it, and the
\* sequence number of the Stop-and-Wait frame the session accepted last (-1:
\* none), before and after it.  steps counts the datagrams handed in.
HistOff == [kind |-> "off"]

Observed(kind, packet, before, after, out, written) ==
    hist' = IF hist.kind = "off" THEN hist
            ELSE [kind |-> kind, packet |-> packet, out |-> out, written |-> written,
                  expected_before |-> before.expected_seq,
                  expected_after |-> after.expected_seq,
                  delivered_before |-> hist.delivered,
                  delivered |->
                      IF kind = "data" /\ before.proto_name = STOP_AND_WAIT
                         /\ after.expected_seq # before.expected_seq
                      THEN packet.sequence_number
                      ELSE IF kind = "fin" THEN -1 ELSE hist.delivered,
                  steps |-> hist.steps]

\* socket.sendto(packet.to_bytes(), address) for each packet of out
SendToClient(address, out) ==
    to_client' = [to_client EXCEPT
                     ![address] = @ \o [i \in 1..Len(out) |-> Datagram(out[i])]]

\* main: data, address = server_socket.recvfrom(2048); pool.apply_async(...), and
\* the free worker that runs the task: handle_packet parses the datagram (and
\* returns at once when from_bytes gives None), then _get_client_context, under
\* states_lock, gives the peer's context, created when absent
WorkerTake(w) ==
    /\ workers[w].pc = "idle"
    /\ \A v \in Workers : v < w => workers[v].pc # "idle"
    /\ sock # <<>>
    /\ sock' = Tail(sock)
    /\ LET address == Head(sock).addr
           packet == ParsePacket(Head(sock).data)
       IN  IF packet = None
           THEN /\ hist' = IF hist.kind = "off" THEN hist
                           ELSE [hist EXCEPT !.kind = "dropped", !.packet = None,
                                             !.out = <<>>, !.written = <<>>]
                /\ UNCHANGED <<workers, client_states, ctxs, nctx>>
           ELSE IF client_states[address] # 0
           THEN /\ workers' = [workers EXCEPT ![w] =
                                  [pc |-> "waiting", packet |-> packet,
                                   address |-> address, ctx |-> client_states[address]]]
                /\ UNCHANGED <<client_states, ctxs, nctx, hist>>
           ELSE /\ nctx < MaxCtx
                /\ nctx' = nctx + 1
                /\ ctxs' = [ctxs EXCEPT ![nctx + 1] = NewContext]
                /\ client_states' = [client_states EXCEPT ![address] = nctx + 1]
                /\ workers' = [workers EXCEPT ![w] =
                                  [pc |-> "waiting", packet |-> packet,
                                   address |-> address, ctx |-> nctx + 1]]
                /\ UNCHANGED hist
    /\ UNCHANGED <<codecVars, temps, storage, rwlock, senders, to_client, clients, lost>>

\* with client_context['lock']: the worker enters the handler
WorkerAcquire(w) ==
    /\ workers[w].pc = "waiting"
    /\ ctxs[workers[w].ctx].lock = 0
    /\ ctxs' = [ctxs EXCEPT ![workers[w].ctx].lock = w]
    /\ workers' = [workers EXCEPT ![w].pc = "locked"]
    /\ UNCHANGED <<codecVars, sock, client_states, nctx, temps, storage,
                   rwlock, senders, to_client, clients, lost, hist>>

\* _process_packet_for_client for a SYN
WorkerSyn(w) ==
    /\ workers[w].pc = "locked"
    /\ has_flag(workers[w].packet, SYN)
    /\ LET c == workers[w].ctx
           r == handle_syn(ctxs[c])
       IN  \* the handler's result applied, and the lock released
           /\ ctxs' = [ctxs EXCEPT ![c] = [r.cs EXCEPT !.lock = 0]]
           /\ SendToClient(workers[w].address, r.out)
           /\ workers' = [workers EXCEPT ![w] = IdleWorker]
           /\ Observed("syn", workers[w].packet, ctxs[c], r.cs, r.out, <<>>)
    /\ UNCHANGED <<codecVars, sock, client_states, nctx, temps, storage, rwlock,
                   senders, clients, lost>>

\* the handler's DATA packet is a DOWNLOAD's operation packet: handle_data will
\* call _prepare_download
PreparesDownload(w) ==
    LET cs == ctxs[workers[w].ctx]
        op == parse_operation_packet(workers[w].packet)
    IN  /\ ~has_flag(workers[w].packet, SYN)
        /\ has_flag(workers[w].packet, DATA)
        /\ cs.connected
        /\ cs.current_operation = <<>>
        /\ cs.expected_seq = 1
        /\ workers[w].packet.sequence_number = 1
        /\ op.operation = DOWNLOAD
        /\ op.filename \in FileNames

\* handle_data in a pool worker.  _prepare_download first enters
\* read_lock(filename): acquire_read takes the condition's lock, which a writer
\* inside write_lock holds, and counts itself; the handler goes on from there
\* and leaves the read lock before it returns.
WorkerData(w) ==
    IF workers[w].pc = "locked" /\ PreparesDownload(w)
    THEN /\ LET name == parse_operation_packet(workers[w].packet).filename
            IN  /\ rwlock[name].writer = 0
                /\ rwlock' = [rwlock EXCEPT ![name].readers = @ + 1]
         /\ workers' = [workers EXCEPT ![w].pc = "read_locked"]
         /\ UNCHANGED <<codecVars, sock, client_states, ctxs, nctx, temps, storage,
                        senders, to_client, clients, lost, hist>>
    ELSE /\ workers[w].pc \in {"locked", "read_locked"}
         /\ ~has_flag(workers[w].packet, SYN)
         /\ has_flag(workers[w].packet, DATA)
         /\ rwlock' = IF workers[w].pc = "read_locked"
                      THEN [rwlock EXCEPT
                               ![parse_operation_packet(workers[w].packet).filename].readers
                                   = @ - 1]
                      ELSE rwlock
         /\ LET c == workers[w].ctx
                cs == ctxs[c]
                name == parse_operation_packet(workers[w].packet).filename
                exists == name \in FileNames /\ storage[name].exists
                r == handle_data(cs, c, workers[w].packet, exists)
            IN  /\ ctxs' = [ctxs EXCEPT ![c] = [r.cs EXCEPT !.lock = 0]]
                /\ temps' = IF cs.temp_file_path = 0 /\ r.cs.temp_file_path = c
                            THEN [temps EXCEPT ![c] = FileOf(<<>>)]
                            ELSE IF r.written = <<>> THEN temps
                            ELSE [temps EXCEPT ![c].data = @ \o r.written]
                /\ SendToClient(workers[w].address, r.out)
                /\ workers' = [workers EXCEPT ![w] = IdleWorker]
                /\ Observed(IF ~cs.connected THEN "ignored"
                            ELSE IF cs.current_operation = <<>> THEN "operation"
                            ELSE "data",
                            workers[w].packet, cs, r.cs, r.out, r.written)
         /\ UNCHANGED <<codecVars, sock, client_states, nctx, storage,
                        senders, clients, lost>>


\* the mutant: a FIN of a peer without a connected session is not answered
FinAnswer_known_only(w) ==
    /\ SendToClient(workers[w].address,
                    IF ctxs[workers[w].ctx].connected
                    THEN <<fin_ack(workers[w].packet)>> ELSE <<>>)
    /\ client_states' = [client_states EXCEPT ![workers[w].address] = 0]
    /\ workers' = [workers EXCEPT ![w].pc = "release"]
    /\ Observed("fin", workers[w].packet, ctxs[workers[w].ctx], ctxs[workers[w].ctx],
                <<>>, <<>>)

\* the FIN|ACK is sent and the peer's entry deleted (whatever context it holds)
FinAnswer(w) ==
    /\ SendToClient(workers[w].address, <<fin_ack(workers[w].packet)>>)
    /\ client_states' = [client_states EXCEPT ![workers[w].address] = 0]
    /\ workers' = [workers EXCEPT ![w].pc = "release"]
    /\ Observed("fin", workers[w].packet, ctxs[workers[w].ctx], ctxs[workers[w].ctx],
                <<fin_ack(workers[w].packet)>>, <<>>)

\* ... for a FIN: handle_fin up to the temp file's close, or all of it when
\* there is nothing to finalize
WorkerFin(w) ==
    /\ workers[w].pc = "locked"
    /\ ~has_flag(workers[w].packet, SYN)
    /\ ~has_flag(workers[w].packet, DATA)
    /\ has_flag(workers[w].packet, FIN)
    /\ LET c == workers[w].ctx
           cs == ctxs[c]
           \* handle_fin finalizes an UPLOAD with a file handle and a name,
           \* _finalize_upload a temp file that exists
           finalizes == /\ cs.current_operation = UPLOAD
                        /\ cs.file_handle # "none"
                        /\ cs.current_filename # <<>>
                        /\ cs.temp_file_path # 0
                        /\ temps[c].exists
       IN  IF finalizes
           THEN /\ ctxs' = [ctxs EXCEPT ![c].file_handle = "closed"]
                /\ workers' = [workers EXCEPT ![w].pc = "fin_wlock"]
                /\ UNCHANGED <<client_states, to_client, hist>>
           ELSE /\ FinAnswer(w)
                /\ UNCHANGED ctxs
    /\ UNCHANGED <<codecVars, sock, nctx, temps, storage, rwlock, senders,
                   clients, lost>>

\* the mutant: acquire_write does not wait for another writer to leave
WorkerFinWriteLock_no_writer_wait(w) ==
    /\ workers[w].pc = "fin_wlock"
    /\ LET name == ctxs[workers[w].ctx].current_filename
       IN  /\ rwlock[name].readers = 0
           /\ rwlock' = [rwlock EXCEPT ![name].writer = w]
    /\ workers' = [workers EXCEPT ![w].pc = "fin_remove"]
    /\ UNCHANGED <<codecVars, sock, client_states, ctxs, nctx, temps, storage,
                   senders, to_client, clients, lost, hist>>

\* the mutant: acquire_write does not wait for the readers to leave
WorkerFinWriteLock_no_wait(w) ==
    /\ workers[w].pc = "fin_wlock"
    /\ LET name == ctxs[workers[w].ctx].current_filename
       IN  /\ rwlock[name].writer = 0
           /\ rwlock' = [rwlock EXCEPT ![name].writer = w]
    /\ workers' = [workers EXCEPT ![w].pc = "fin_remove"]
    /\ UNCHANGED <<codecVars, sock, client_states, ctxs, nctx, temps, storage,
                   senders, to_client, clients, lost, hist>>

\* _finalize_upload: write_lock(filename) is entered (acquire_write waits for
\* the lock and for the readers to leave)
WorkerFinWriteLock(w) ==
    /\ workers[w].pc = "fin_wlock"
    /\ LET name == ctxs[workers[w].ctx].current_filename
       IN  /\ rwlock[name].writer = 0
           /\ rwlock[name].readers = 0
           /\ rwlock' = [rwlock EXCEPT ![name].writer = w]
    /\ workers' = [workers EXCEPT ![w].pc = "fin_remove"]
    /\ UNCHANGED <<codecVars, sock, client_states, ctxs, nctx, temps, storage,
                   senders, to_client, clients, lost, hist>>

\* if os.path.exists(final_path): os.remove(final_path)
WorkerFinRemove(w) ==
    /\ workers[w].pc = "fin_remove"
    /\ storage' = [storage EXCEPT ![ctxs[workers[w].ctx].current_filename] = Missing]
    /\ workers' = [workers EXCEPT ![w].pc = "fin_rename"]
    /\ UNCHANGED <<codecVars, sock, client_states, ctxs, nctx, temps, rwlock,
                   senders, to_client, clients, lost, hist>>

\* os.rename(temp_path, final_path); the write lock is left; handle_fin answers
\* and _process_packet_for_client deletes the peer's entry
WorkerFinRename(w) ==
    /\ workers[w].pc = "fin_rename"
    /\ LET c == workers[w].ctx
           name == ctxs[c].current_filename
       IN  /\ storage' = [storage EXCEPT ![name] = FileOf(temps[c].data)]
           /\ temps' = [temps EXCEPT ![c] = Missing]
           /\ rwlock' = [rwlock EXCEPT ![name].writer = 0]
    /\ FinAnswer(w)
    /\ UNCHANGED <<codecVars, sock, ctxs, nctx, senders, clients, lost>>

\* the session lock is released after the FIN
WorkerRelease(w) ==
    /\ workers[w].pc = "release"
    /\ ctxs' = [ctxs EXCEPT ![workers[w].ctx].lock = 0]
    /\ workers' = [workers EXCEPT ![w] = IdleWorker]
    /\ UNCHANGED <<codecVars, sock, client_states, nctx, temps, storage,
                   rwlock, senders, to_client, clients, lost, hist>>

\* the _send_job thread of a context: not started.  starts counts the threads
\* handle_ack started for the context (t.start())
NoSender ==
    [pc |-> "off", address |-> "", file |-> <<>>, pos |-> 0, eof |-> FALSE, starts |-> 0]

\* the thread is alive
SenderRunning(c) == senders[c].pc \in {"open", "wait", "loop"}

\* proto.on_ack of whichever engine the session holds
on_ack(proto, packet) ==
    IF proto.kind = "stop_and_wait"
    THEN [proto |-> sw_on_ack(proto, packet).proto, out |-> <<>>]
    ELSE [proto |-> sr_on_ack(proto, packet).proto, out |-> sr_on_ack(proto, packet).out]

\* the mutant: handle_ack does not look at download_started
StartsDownload_again(cs, packet) == packet.ack_number = 1 /\ cs.download_ready

\* handle_ack's test: the download starts on ACK(1) of a ready session, once
StartsDownload(cs, packet) ==
    packet.ack_number = 1 /\ cs.download_ready /\ ~cs.download_started

\* ... for an ACK: handle_ack.  With no sender thread on the session's engine
\* proto.on_ack runs alone; with one, the worker is inside on_ack (it has read
\* current_seq and compared) before it writes.
WorkerAck(w) ==
    /\ workers[w].pc = "locked"
    /\ ~has_flag(workers[w].packet, SYN)
    /\ ~has_flag(workers[w].packet, DATA)
    /\ ~has_flag(workers[w].packet, FIN)
    /\ has_flag(workers[w].packet, ACK)
    /\ LET c == workers[w].ctx
           cs == ctxs[c]
           packet == workers[w].packet
       IN  IF StartsDownload(cs, packet)
           THEN /\ ctxs' = [ctxs EXCEPT ![c].download_started = TRUE, ![c].lock = 0]
                /\ senders' = [senders EXCEPT ![c] =
                                  [NoSender EXCEPT !.pc = "open",
                                                   !.address = workers[w].address,
                                                   !.starts = senders[c].starts + 1]]
                /\ workers' = [workers EXCEPT ![w] = IdleWorker]
                /\ Observed("ack", packet, cs, cs, <<>>, <<>>)
                /\ UNCHANGED to_client
           ELSE IF cs.proto = None
           THEN /\ ctxs' = [ctxs EXCEPT ![c].lock = 0]
                /\ workers' = [workers EXCEPT ![w] = IdleWorker]
                /\ Observed("ack", packet, cs, cs, <<>>, <<>>)
                /\ UNCHANGED <<senders, to_client>>
           ELSE IF SenderRunning(c)
           THEN /\ workers' = [workers EXCEPT ![w].pc =
                                  IF cs.proto.kind = "stop_and_wait"
                                     /\ packet.ack_number # cs.proto.current_seq
                                  THEN "on_ack_miss" ELSE "on_ack"]
                /\ UNCHANGED <<ctxs, senders, to_client, hist>>
           ELSE /\ ctxs' = [ctxs EXCEPT ![c].proto = on_ack(cs.proto, packet).proto,
                                        ![c].lock = 0]
                /\ SendToClient(workers[w].address, on_ack(cs.proto, packet).out)
                /\ workers' = [workers EXCEPT ![w] = IdleWorker]
                /\ Observed("ack", packet, cs, cs, on_ack(cs.proto, packet).out, <<>>)
                /\ UNCHANGED senders
    /\ UNCHANGED <<codecVars, sock, client_states, nctx, temps, storage,
                   rwlock, clients, lost>>

\* the rest of on_ack beside a running sender: Stop-and-Wait writes the flag and
\* retries for the comparison it made; Selective Repeat updates its dicts
WorkerAckWrite(w) ==
    /\ workers[w].pc \in {"on_ack", "on_ack_miss"}
    /\ LET c == workers[w].ctx
           proto == ctxs[c].proto
           packet == workers[w].packet
           after == IF workers[w].pc = "on_ack_miss" THEN proto
                    ELSE IF proto.kind = "stop_and_wait"
                    THEN [proto EXCEPT !.pending_ack_for_current = TRUE, !.retries = 0]
                    ELSE sr_on_ack(proto, packet).proto
           out == IF workers[w].pc = "on_ack" /\ proto.kind = "selective_repeat"
                  THEN sr_on_ack(proto, packet).out ELSE <<>>
       IN  /\ ctxs' = [ctxs EXCEPT ![c].proto = after, ![c].lock = 0]
           /\ SendToClient(workers[w].address, out)
           /\ Observed("ack", packet, ctxs[c], ctxs[c], out, <<>>)
    /\ workers' = [workers EXCEPT ![w] = IdleWorker]
    /\ UNCHANGED <<codecVars, sock, client_states, nctx, temps, storage,
                   rwlock, senders, clients, lost>>

\* ... for a packet with none of the four flags: nothing is done
WorkerOther(w) ==
    /\ workers[w].pc = "locked"
    /\ ~has_flag(workers[w].packet, SYN)
    /\ ~has_flag(workers[w].packet, DATA)
    /\ ~has_flag(workers[w].packet, FIN)
    /\ ~has_flag(workers[w].packet, ACK)
    /\ ctxs' = [ctxs EXCEPT ![workers[w].ctx].lock = 0]
    /\ workers' = [workers EXCEPT ![w] = IdleWorker]
    /\ Observed("other", workers[w].packet, ctxs[workers[w].ctx], ctxs[workers[w].ctx],
                <<>>, <<>>)
    /\ UNCHANGED <<codecVars, sock, client_states, nctx, temps, storage,
                   rwlock, senders, to_client, clients, lost>>

(***************************************************************************)
(* send_file of the two engines.  A sender is [proto, file, pos, eof]: the *)
(* engine, the bytes of the open file, the read position and eof_reached.  *)
(* Each step gives the sender after it, the packets sent and the state of  *)
(* the call: "run", or its return value "True" / "False".                  *)
(***************************************************************************)
Sent(tx, out, result) == [tx |-> tx, out |-> out, result |-> result]

\* Stop-and-Wait: the next chunk is read and sent, or the file is over
sw_send_next(tx) ==
    LET chunk == Slice(tx.file, tx.pos, tx.pos + ChunkSize)
        packet == [create_data_packet(tx.proto.current_seq, chunk) EXCEPT !.ack_number = 0]
    IN  IF chunk = <<>> THEN Sent(tx, <<>>, "True")
        ELSE Sent([tx EXCEPT !.pos = @ + Len(chunk), !.proto.last_sent_packet = packet],
                  <<packet>>, "run")

\* Stop-and-Wait: the ACK of the chunk in flight was seen; the sequence number
\* alternates and the loop goes on with the next chunk
sw_send_acked(tx) ==
    sw_send_next([tx EXCEPT !.proto.pending_ack_for_current = FALSE,
                            !.proto.current_seq = (@ + 1) % 2,
                            !.proto.retries = 0,
                            !.proto.last_sent_packet = None])

\* Stop-and-Wait: the wait timed out; handle_timeout resends, and the loop's
\* send_packet sends the packet once more
sw_send_timeout(tx) ==
    LET r == sw_handle_timeout(tx.proto)
    IN  IF ~r.ok THEN Sent(tx, <<>>, "False")
        ELSE Sent([tx EXCEPT !.proto = r.proto], r.out \o <<tx.proto.last_sent_packet>>,
                  "run")

RECURSIVE sr_fill(_, _)
\* Selective Repeat: the window is filled from the file
sr_fill(tx, out) ==
    IF tx.eof \/ Len(tx.proto.send_window) >= tx.proto.window_size
    THEN Sent(tx, out, "run")
    ELSE LET chunk == Slice(tx.file, tx.pos, tx.pos + ChunkSize)
             s == sr_send_packet(tx.proto, chunk)
         IN  IF chunk = <<>> THEN Sent([tx EXCEPT !.eof = TRUE], out, "run")
             ELSE sr_fill([tx EXCEPT !.proto = s.proto, !.pos = @ + Len(chunk)],
                          out \o s.out)

\* Selective Repeat: one turn of send_file's loop.  The window is filled;
\* receive_packet gave pkt (None: nothing arrived; an ACK goes to _handle_ack, a
\* DATA packet is acknowledged to its source, reply); _check_timeouts found the
\* k oldest timestamps expired; the loop ends when the file and the window are over.
\* a turn whose loop ends at the end of the file, whatever the window holds
sr_send_turn_eof_only(tx, pkt, k) ==
    LET filled == sr_fill(tx, <<>>)
        acked == IF pkt # None /\ has_flag(pkt, ACK)
                 THEN sr_on_ack(filled.tx.proto, pkt)
                 ELSE [proto |-> filled.tx.proto, out |-> <<>>]
        timed == sr_check_timeouts(acked.proto, k)
        after == [filled.tx EXCEPT !.proto = timed.proto]
    IN  [tx |-> after,
         out |-> filled.out \o acked.out \o timed.out,
         reply |-> IF pkt # None /\ ~has_flag(pkt, ACK) /\ has_flag(pkt, DATA)
                   THEN <<create_ack_packet(pkt.sequence_number, 0)>> ELSE <<>>,
         result |-> IF after.eof THEN "True" ELSE "run"]

sr_send_turn(tx, pkt, k) ==
    LET filled == sr_fill(tx, <<>>)
        acked == IF pkt # None /\ has_flag(pkt, ACK)
                 THEN sr_on_ack(filled.tx.proto, pkt)
                 ELSE [proto |-> filled.tx.proto, out |-> <<>>]
        timed == sr_check_timeouts(acked.proto, k)
        after == [filled.tx EXCEPT !.proto = timed.proto]
    IN  [tx |-> after,
         out |-> filled.out \o acked.out \o timed.out,
         reply |-> IF pkt # None /\ ~has_flag(pkt, ACK) /\ has_flag(pkt, DATA)
                   THEN <<create_ack_packet(pkt.sequence_number, 0)>> ELSE <<>>,
         result |-> IF after.eof /\ after.proto.send_window = <<>>
                    THEN "True" ELSE "run"]

(***************************************************************************)
(* The _send_job thread of a download (handle_ack).  It works on the       *)
(* session's engine, client_state['proto'], and holds no lock.             *)
(***************************************************************************)
\* the thread's send_file as a sender
SenderOf(c) ==
    [proto |-> ctxs[c].proto, file |-> senders[c].file, pos |-> senders[c].pos,
     eof |-> senders[c].eof]

\* the FIN _send_job sends after a send_file that returned True
download_fin == create_end_packet(0, 3)

\* a step of the thread's send_file applied: the engine and the thread after it
SenderApply(c, r) ==
    /\ ctxs' = [ctxs EXCEPT ![c].proto = r.tx.proto]
    /\ senders' = [senders EXCEPT ![c] =
                      [@ EXCEPT !.pc = IF r.result = "True" THEN "done"
                                       ELSE IF r.result = "False" THEN "failed"
                                       ELSE IF r.tx.proto.kind = "stop_and_wait" THEN "wait"
                                       ELSE "loop",
                                !.file = r.tx.file, !.pos = r.tx.pos, !.eof = r.tx.eof]]

\* send_file opens the stored file: Stop-and-Wait returns False when
\* os.path.exists fails, Selective Repeat when open raises
SenderOpen(c) ==
    /\ senders[c].pc = "open"
    /\ LET name == ctxs[c].current_filename
           tx == [proto |-> ctxs[c].proto, file |-> storage[name].data,
                  pos |-> 0, eof |-> FALSE]
       IN  IF ~storage[name].exists
           THEN /\ senders' = [senders EXCEPT ![c].pc = "missing"]
                /\ UNCHANGED <<ctxs, to_client>>
           ELSE IF ctxs[c].proto.kind = "stop_and_wait"
           THEN /\ SenderApply(c, sw_send_next(tx))
                /\ SendToClient(senders[c].address,
                                sw_send_next(tx).out
                                \o IF sw_send_next(tx).result = "True"
                                   THEN <<download_fin>> ELSE <<>>)
           ELSE /\ SenderApply(c, Sent(tx, <<>>, "run"))
                /\ UNCHANGED to_client
    /\ UNCHANGED <<codecVars, sock, workers, client_states, nctx, temps, storage,
                   rwlock, clients, lost, hist>>

\* Stop-and-Wait with external_ack_handling: the wait sees the flag on_ack set
SenderSwAcked(c) ==
    /\ senders[c].pc = "wait"
    /\ ctxs[c].proto.pending_ack_for_current
    /\ LET r == sw_send_acked(SenderOf(c))
       IN  /\ SenderApply(c, r)
           /\ SendToClient(senders[c].address,
                           r.out \o IF r.result = "True" THEN <<download_fin>> ELSE <<>>)
    /\ UNCHANGED <<codecVars, sock, workers, client_states, nctx, temps, storage,
                   rwlock, clients, lost, hist>>

\* ... or the wait runs out
SenderSwTimeout(c) ==
    /\ senders[c].pc = "wait"
    /\ ~ctxs[c].proto.pending_ack_for_current
    /\ sock = <<>>
    /\ \A w \in Workers : workers[w] = IdleWorker
    /\ LET r == sw_send_timeout(SenderOf(c))
       IN  /\ SenderApply(c, r)
           /\ SendToClient(senders[c].address, r.out)
    /\ UNCHANGED <<codecVars, sock, workers, client_states, nctx, temps, storage,
                   rwlock, clients, lost, hist>>

To(address, out) == [i \in 1..Len(out) |-> [addr |-> address, packet |-> out[i]]]

\* Selective Repeat: a turn of the loop.  receive_packet reads the engine's
\* socket, which is the server's socket: with steal the turn takes the next
\* datagram received for the server, whichever peer sent it.
SenderSrTurn(c, steal, k) ==
    /\ senders[c].pc = "loop"
    /\ steal => sock # <<>> /\ k = 0
    /\ k <= Len(ctxs[c].proto.stamps)
    /\ LET pkt == IF steal THEN ParsePacket(Head(sock).data) ELSE None
           r == sr_send_turn(SenderOf(c), pkt, k)
           out == To(senders[c].address, r.out)
                  \o (IF steal THEN To(Head(sock).addr, r.reply) ELSE <<>>)
                  \o To(senders[c].address,
                        IF r.result = "True" THEN <<download_fin>> ELSE <<>>)
       IN  /\ SenderApply(c, r)
           \* the packets of out, each to its address, on the clients' sockets
           /\ to_client' =
                  [p \in Peers |->
                      to_client[p] \o
                      [i \in 1..Len(SelectSeq(out, LAMBDA o : o.addr = p)) |->
                          Datagram(SelectSeq(out, LAMBDA o : o.addr = p)[i].packet)]]
    /\ sock' = IF steal THEN Tail(sock) ELSE sock
    /\ UNCHANGED <<codecVars, workers, client_states, nctx, temps, storage,
                   rwlock, clients, lost, hist>>

(***************************************************************************)
(* The client (lib/client/main.py): upload_main and download_main.         *)
(***************************************************************************)
\* attempts of connect_server: 10 in the source
ConnectAttempts == 1
\* attempts of send_operation_request: 10 in the source
OperationAttempts == 2
\* max_fin_attempts of upload_main: 5 in the source
FinAttempts == 2
\* receive attempts of one wait_for_fin_ack: 10 in the source
FinWaitAttempts == 1
\* longest file, in bytes
MaxFileLen == 2
\* datagrams the network may lose in one run
MaxLoss == 1

\* a client process that is not run
OffClient ==
    [pc |-> "off", operation |-> <<>>, protocol |-> <<>>, attempt |-> 0,
     fin_attempt |-> 0, proto |-> None, file |-> <<>>, pos |-> 0, eof |-> FALSE,
     success |-> "none", fin_closed |-> FALSE, dest |-> Missing]

\* a client about to run: upload of file, or download (file is then empty)
NewClient(operation, protocol, file) ==
    [OffClient EXCEPT !.pc = "start", !.operation = operation,
                      !.protocol = protocol, !.file = file]

\* what a step of the client gives: the process after it and the packets it sent
Stepped(cl, out) == [cl |-> cl, out |-> out]

\* the FIN both mains send
fin_packet == create_end_packet(0, 100)

\* the transfer returned (success: "yes" / "no"); the first FIN is sent
client_close(cl, success) ==
    Stepped([cl EXCEPT !.pc = "fin_wait", !.success = success,
                       !.fin_attempt = 1, !.attempt = 1],
            <<fin_packet>>)

\* the client's send_file as a sender
ClientSender(cl) == [proto |-> cl.proto, file |-> cl.file, pos |-> cl.pos, eof |-> cl.eof]

\* a step of the client's send_file applied
client_sent(cl, r) ==
    LET after == [cl EXCEPT !.proto = r.tx.proto, !.pos = r.tx.pos, !.eof = r.tx.eof]
    IN  IF r.result = "True"
        THEN Stepped(client_close(after, "yes").cl, r.out \o client_close(after, "yes").out)
        ELSE IF r.result = "False"
        THEN Stepped(client_close(after, "no").cl, r.out \o client_close(after, "no").out)
        ELSE Stepped(after, r.out)

\* upload_file / download_file: the engine is created and the transfer starts
client_transfer(cl) ==
    IF cl.operation = UPLOAD
    THEN IF cl.protocol = SELECTIVE_REPEAT
         THEN Stepped([cl EXCEPT !.pc = "sr_loop",
                          !.proto = [SelectiveRepeatProtocol(SrMaxRetries, WindowSize)
                                        EXCEPT !.current_seq = 2]],
                      <<>>)
         ELSE client_sent([cl EXCEPT !.pc = "sw_wait"],
                          sw_send_next([proto |-> StopAndWaitProtocol(SwMaxRetries),
                                        file |-> cl.file, pos |-> 0, eof |-> FALSE]))
    ELSE Stepped([cl EXCEPT !.pc = "dl_wait",
                     !.proto = IF cl.protocol = SELECTIVE_REPEAT
                               THEN [SelectiveRepeatProtocol(SrMaxRetries, WindowSize)
                                        EXCEPT !.expected_seq = 2]
                               ELSE StopAndWaitProtocol(SwMaxRetries)],
                 <<>>)

\* connect_server: an attempt failed (a timeout, or an answer that is not SYN|ACK)
client_syn_miss(cl) ==
    IF cl.attempt < ConnectAttempts
    THEN Stepped([cl EXCEPT !.attempt = @ + 1], <<create_sync_packet(0)>>)
    ELSE Stepped([cl EXCEPT !.pc = "closed"], <<>>)

\* connect_server: an answer arrived
client_syn_recv(cl, pkt) ==
    IF has_flag(pkt, SYN) /\ has_flag(pkt, ACK)
    THEN Stepped([cl EXCEPT !.pc = "op_wait", !.attempt = 1],
                 <<create_operation_packet(1, cl.operation, FileX, cl.protocol)>>)
    ELSE client_syn_miss(cl)

\* send_operation_request: an attempt failed; after the last one the mains close
client_op_miss(cl) ==
    IF cl.attempt < OperationAttempts
    THEN Stepped([cl EXCEPT !.attempt = @ + 1],
                 <<create_operation_packet(1, cl.operation, FileX, cl.protocol)>>)
    ELSE client_close(cl, "none")

\* send_operation_request: an answer arrived; ACK(1) is confirmed and the
\* transfer starts
client_op_recv(cl, pkt) ==
    IF has_flag(pkt, ACK) /\ pkt.ack_number = 1
    THEN Stepped(client_transfer(cl).cl,
                 <<create_ack_packet(1, 0)>> \o client_transfer(cl).out)
    ELSE client_op_miss(cl)

\* Stop-and-Wait's receive_packet inside send_file's wait
client_sw_recv(cl, pkt) ==
    IF has_flag(pkt, ACK)
    THEN IF pkt.ack_number = cl.proto.current_seq
         THEN client_sent(cl, sw_send_acked(ClientSender(cl)))
         ELSE Stepped(cl, <<>>)
    ELSE IF has_flag(pkt, DATA)
    THEN IF pkt.sequence_number = cl.proto.expected_seq
         THEN Stepped([cl EXCEPT !.proto.expected_seq = (@ + 1) % 2],
                      <<create_ack_packet(pkt.sequence_number, 0)>>)
         ELSE Stepped(cl, <<create_ack_packet((cl.proto.expected_seq - 1) % 2, 0)>>)
    ELSE Stepped(cl, <<>>)

\* the mutant: the FIN loop's range is off by one (one FIN more is sent)
client_fin_miss_one_more(cl) ==
    IF cl.attempt < FinWaitAttempts
    THEN Stepped([cl EXCEPT !.attempt = @ + 1], <<>>)
    ELSE IF cl.operation = UPLOAD /\ cl.fin_attempt <= FinAttempts
    THEN Stepped([cl EXCEPT !.attempt = 1, !.fin_attempt = @ + 1], <<fin_packet>>)
    ELSE Stepped([cl EXCEPT !.pc = "closed"], <<>>)

\* wait_for_fin_ack: a receive that gave no FIN|ACK; the next FIN, or the end
client_fin_miss(cl) ==
    IF cl.attempt < FinWaitAttempts
    THEN Stepped([cl EXCEPT !.attempt = @ + 1], <<>>)
    ELSE IF cl.operation = UPLOAD /\ cl.fin_attempt < FinAttempts
    THEN Stepped([cl EXCEPT !.attempt = 1, !.fin_attempt = @ + 1], <<fin_packet>>)
    ELSE Stepped([cl EXCEPT !.pc = "closed"], <<>>)

client_fin_recv(cl, pkt) ==
    IF has_flag(pkt, FIN) /\ has_flag(pkt, ACK)
    THEN Stepped([cl EXCEPT !.pc = "closed", !.fin_closed = TRUE], <<>>)
    ELSE client_fin_miss(cl)

\* download_file's loop: a packet arrived
client_dl_recv(cl, pkt) ==
    IF has_flag(pkt, DATA)
    THEN LET r == on_data(cl.proto, pkt)
         IN  Stepped([cl EXCEPT !.proto = r.proto, !.file = @ \o r.data_to_write],
                     <<create_ack_packet(r.ack_num, 0)>>)
    ELSE IF has_flag(pkt, FIN)
    \* the temp file is moved to the destination; download_main sends its FIN
    THEN LET moved == [cl EXCEPT !.dest = FileOf(cl.file)]
         IN  Stepped(client_close(moved, "yes").cl,
                     <<create_ack_packet(pkt.sequence_number, 0)>>
                     \o client_close(moved, "yes").out)
    ELSE IF has_flag(pkt, ERR) THEN client_close(cl, "no")
    ELSE Stepped(cl, <<>>)

\* a step of client p applied: the process after it, and
\* client_socket.sendto(packet.to_bytes(), addr) for each packet it sent
ClientApply(p, r) ==
    /\ clients' = [clients EXCEPT ![p] = r.cl]
    /\ sock' = sock \o [i \in 1..Len(r.out) |-> [addr |-> p, data |-> Datagram(r.out[i])]]

\* connect_server sends the first SYN
ClientStart(p) ==
    /\ clients[p].pc = "start"
    /\ ClientApply(p, Stepped([clients[p] EXCEPT !.pc = "syn_wait", !.attempt = 1],
                              <<create_sync_packet(0)>>))
    /\ UNCHANGED <<codecVars, workers, client_states, ctxs, nctx, temps, storage,
                   rwlock, senders, to_client, lost, hist>>

\* recvfrom of a client that waits in the handshake, in Stop-and-Wait's send_file,
\* in download_file or for the FIN|ACK
ClientRecv(p) ==
    /\ clients[p].pc \in {"syn_wait", "op_wait", "sw_wait", "dl_wait", "fin_wait"}
    /\ to_client[p] # <<>>
    /\ to_client' = [to_client EXCEPT ![p] = Tail(@)]
    /\ LET cl == clients[p]
           pkt == Head(to_client[p])
       IN  ClientApply(p, IF cl.pc = "syn_wait" THEN client_syn_recv(cl, pkt)
                          ELSE IF cl.pc = "op_wait" THEN client_op_recv(cl, pkt)
                          ELSE IF cl.pc = "sw_wait" THEN client_sw_recv(cl, pkt)
                          ELSE IF cl.pc = "dl_wait" THEN client_dl_recv(cl, pkt)
                          ELSE client_fin_recv(cl, pkt))
    /\ UNCHANGED <<codecVars, workers, client_states, ctxs, nctx, temps, storage,
                   rwlock, senders, lost, hist>>

\* socket.timeout in the same waits: nothing is on the client's socket
ClientTimeout(p) ==
    /\ clients[p].pc \in {"syn_wait", "op_wait", "sw_wait", "dl_wait", "fin_wait"}
    /\ to_client[p] = <<>>
    /\ LET cl == clients[p]
       IN  ClientApply(p, IF cl.pc = "syn_wait" THEN client_syn_miss(cl)
                          ELSE IF cl.pc = "op_wait" THEN client_op_miss(cl)
                          ELSE IF cl.pc = "sw_wait"
                          THEN client_sent(cl, sw_send_timeout(ClientSender(cl)))
                          ELSE IF cl.pc = "dl_wait" THEN client_close(cl, "no")
                          ELSE client_fin_miss(cl))
    /\ UNCHANGED <<codecVars, workers, client_states, ctxs, nctx, temps, storage,
                   rwlock, senders, to_client, lost, hist>>

\* a turn of Selective Repeat's send_file in the client; with recv the turn's
\* receive_packet takes the next datagram on the client's socket, and
\* timestamps expire in the turns that receive nothing
ClientSrTurn(p, recv, k) ==
    /\ clients[p].pc = "sr_loop"
    /\ recv = (to_client[p] # <<>>)
    /\ recv => k = 0
    /\ k <= Len(clients[p].proto.stamps)
    /\ LET pkt == IF recv THEN Head(to_client[p]) ELSE None
           r == sr_send_turn(ClientSender(clients[p]), pkt, k)
           s == client_sent(clients[p], r)
       IN  ClientApply(p, Stepped(s.cl, r.reply \o s.out))
    /\ to_client' = [to_client EXCEPT ![p] = IF recv THEN Tail(@) ELSE @]
    /\ UNCHANGED <<codecVars, workers, client_states, ctxs, nctx, temps, storage,
                   rwlock, senders, lost, hist>>

\* the network loses a datagram sent to the server: the next one the server
\* would have received
LoseToServer ==
    /\ lost < MaxLoss
    /\ sock # <<>>
    /\ sock' = Tail(sock)
    /\ lost' = lost + 1
    /\ UNCHANGED <<codecVars, workers, client_states, ctxs, nctx, temps, storage,
                   rwlock, senders, to_client, clients, hist>>

\* the network loses a datagram sent to a client
LoseToClient(p) ==
    /\ lost < MaxLoss
    /\ to_client[p] # <<>>
    /\ to_client' = [to_client EXCEPT ![p] = Tail(@)]
    /\ lost' = lost + 1
    /\ UNCHANGED <<codecVars, sock, workers, client_states, ctxs, nctx, temps, storage,
                   rwlock, senders, clients, hist>>

(***************************************************************************)
(* The system: server, network and clients.                                *)
(***************************************************************************)
\* a server that has just started, and no client
ProtoIdle ==
    /\ sock = <<>>
    /\ workers = [w \in Workers |-> IdleWorker]
    /\ client_states = [p \in Peers |-> 0]
    /\ ctxs = [c \in CtxIds |-> NewContext]
    /\ nctx = 0
    /\ temps = [c \in CtxIds |-> Missing]
    /\ storage = [n \in FileNames |-> Missing]
    /\ rwlock = [n \in FileNames |-> [readers |-> 0, writer |-> 0]]
    /\ senders = [c \in CtxIds |-> NoSender]
    /\ to_client = [p \in Peers |-> <<>>]
    /\ clients = [p \in Peers |-> OffClient]
    /\ lost = 0
    /\ hist = HistOff

CodecIdle ==
    /\ cpc = "built"
    /\ cpkt = create_sync_packet(0)
    /\ cbytes = <<>>
    /\ cflip = 0
    /\ cdec = None
    /\ ccodec = "crc32"
    /\ eng = None

\* the server's steps
ServerNext ==
    \E w \in Workers :
        \/ WorkerTake(w)
        \/ WorkerAcquire(w)
        \/ WorkerSyn(w)
        \/ WorkerData(w)
        \/ WorkerFin(w)
        \/ WorkerFinWriteLock(w)
        \/ WorkerFinRemove(w)
        \/ WorkerFinRename(w)
        \/ WorkerRelease(w)
        \/ WorkerAck(w)

\* An upload: client A uploads a file as X over a network that loses datagrams.
Init ==
    /\ CodecIdle
    /\ sock = <<>>
    /\ workers = [w \in Workers |-> IdleWorker]
    /\ client_states = [p \in Peers |-> 0]
    /\ ctxs = [c \in CtxIds |-> NewContext]
    /\ nctx = 0
    /\ temps = [c \in CtxIds |-> Missing]
    /\ storage = [n \in FileNames |-> Missing]
    /\ rwlock = [n \in FileNames |-> [readers |-> 0, writer |-> 0]]
    /\ senders = [c \in CtxIds |-> NoSender]
    /\ to_client = [p \in Peers |-> <<>>]
    \* the file uploaded: the bytes 1, 2, ... so that every chunk differs
    /\ \E protocol \in {STOP_AND_WAIT, SELECTIVE_REPEAT},
          file \in {[i \in 1..n |-> i] : n \in 1..MaxFileLen} :
          clients = [p \in Peers |-> IF p = "A" THEN NewClient(UPLOAD, protocol, file)
                                     ELSE OffClient]
    /\ lost = 0
    /\ hist = HistOff

Next ==
    \/ ServerNext
    \/ ClientStart("A")
    \/ ClientRecv("A")
    \/ ClientTimeout("A")
    \/ \E recv \in BOOLEAN, k \in 0..WindowSize : ClientSrTurn("A", recv, k)
    \/ LoseToServer
    \/ LoseToClient("A")

Spec == Init /\ [][Next]_vars

\* The Stop-and-Wait upload with its scheduling: the pool's workers run the
\* handlers they were given, and the client's blocking calls return (with a
\* datagram or with socket.timeout).  The network owes nothing: a loss is never
\* forced.
InitLive ==
    /\ Init
    /\ clients["A"].protocol = STOP_AND_WAIT

ClientNext ==
    \/ ClientStart("A")
    \/ ClientRecv("A")
    \/ ClientTimeout("A")

NextLive ==
    \/ ServerNext
    \/ ClientNext
    \/ LoseToServer
    \/ LoseToClient("A")

SpecLive ==
    InitLive /\ [][NextLive]_vars /\ WF_vars(ServerNext) /\ WF_vars(ClientNext)

(***************************************************************************)
(* Downloads: X is stored; client B downloads it while client A uploads a  *)
(* new X or downloads it too.  B is started once A's transfer is under way  *)
(* (A waits for its download's data, or has sent its upload's FIN).  The   *)
(* network loses nothing here and nothing times out; the server's workers  *)
(* and sender threads interleave freely.                                   *)
(***************************************************************************)
\* the X stored before the run
OldFile == <<7, 8>>

\* the file A uploads
NewFile == <<1>>

\* the download's threads
SenderNext ==
    \E c \in CtxIds :
        \/ SenderOpen(c)
        \/ SenderSwAcked(c)
        \/ SenderSwTimeout(c)
        \/ \E steal \in BOOLEAN : SenderSrTurn(c, steal, 0)

InitDownload ==
    /\ CodecIdle
    /\ sock = <<>>
    /\ workers = [w \in Workers |-> IdleWorker]
    /\ client_states = [p \in Peers |-> 0]
    /\ ctxs = [c \in CtxIds |-> NewContext]
    /\ nctx = 0
    /\ temps = [c \in CtxIds |-> Missing]
    /\ storage = [n \in FileNames |-> FileOf(OldFile)]
    /\ rwlock = [n \in FileNames |-> [readers |-> 0, writer |-> 0]]
    /\ senders = [c \in CtxIds |-> NoSender]
    /\ to_client = [p \in Peers |-> <<>>]
    /\ \E a \in {NewClient(UPLOAD, STOP_AND_WAIT, NewFile),
                 NewClient(DOWNLOAD, SELECTIVE_REPEAT, <<>>)},
          b \in {NewClient(DOWNLOAD, STOP_AND_WAIT, <<>>),
                 NewClient(DOWNLOAD, SELECTIVE_REPEAT, <<>>)} :
          clients = [p \in Peers |-> IF p = "A" THEN a ELSE b]
    /\ lost = 0
    /\ hist = HistOff

NextDownload ==
    \/ ServerNext
    \/ \E w \in Workers : WorkerAckWrite(w)
    \/ SenderNext
    \/ ClientStart("A")
    \* B is started once A's transfer is under way
    \/ clients["A"].pc \in {"dl_wait", "fin_wait", "closed"} /\ ClientStart("B")
    \/ \E p \in Peers : ClientRecv(p)

SpecDownload == InitDownload /\ [][NextDownload]_vars

(***************************************************************************)
(* One peer's datagrams, handled one at a time: any datagram a client can  *)
(* send is handed to the server once the last one was handled, and the     *)
(* history variable records each handler run.                              *)
(***************************************************************************)
\* datagrams handed in during one run
MaxSteps == 6

\* the datagrams peer A may send
SessionPackets ==
    {create_sync_packet(0), fin_packet, create_error_packet(0, <<>>, 0)}
    \cup {create_operation_packet(1, o, FileX, r) :
            o \in {UPLOAD, DOWNLOAD}, r \in {STOP_AND_WAIT, SELECTIVE_REPEAT}}
    \cup {[create_data_packet(s, d) EXCEPT !.ack_number = 0] :
            s \in 0..3, d \in {<<1>>, <<2>>}}
    \cup {create_ack_packet(a, 0) : a \in 0..2}

\* peer A has read the answers on its socket and sends the next datagram
SessionSend(packet) ==
    \* the server is idle: nothing to take, no worker busy
    /\ sock = <<>>
    /\ \A w \in Workers : workers[w].pc = "idle"
    /\ hist.steps < MaxSteps
    /\ sock' = <<[addr |-> "A", data |-> Datagram(packet)]>>
    /\ to_client' = [to_client EXCEPT !["A"] = <<>>]
    /\ hist' = [hist EXCEPT !.steps = @ + 1]
    /\ UNCHANGED <<codecVars, workers, client_states, ctxs, nctx, temps, storage,
                   rwlock, senders, clients, lost>>

\* a datagram of peer p reaches the server damaged on the way: its bytes do
\* not pass from_bytes
SessionDamaged(p) ==
    /\ sock = <<>>
    /\ hist.steps < MaxSteps
    /\ sock' = <<[addr |-> p, data |-> [corrupt |-> TRUE]]>>
    /\ hist' = [hist EXCEPT !.steps = @ + 1]
    /\ UNCHANGED <<codecVars, workers, client_states, ctxs, nctx, temps, storage,
                   rwlock, senders, to_client, clients, lost>>

InitSession ==
    /\ CodecIdle
    /\ sock = <<>>
    /\ workers = [w \in Workers |-> IdleWorker]
    /\ client_states = [p \in Peers |-> 0]
    /\ ctxs = [c \in CtxIds |-> NewContext]
    /\ nctx = 0
    /\ temps = [c \in CtxIds |-> Missing]
    /\ storage \in {[n \in FileNames |-> Missing], [n \in FileNames |-> FileOf(OldFile)]}
    /\ rwlock = [n \in FileNames |-> [readers |-> 0, writer |-> 0]]
    /\ senders = [c \in CtxIds |-> NoSender]
    /\ to_client = [p \in Peers |-> <<>>]
    /\ clients = [p \in Peers |-> OffClient]
    /\ lost = 0
    /\ hist = [kind |-> "none", packet |-> None, out |-> <<>>, written |-> <<>>,
               expected_before |-> 0, expected_after |-> 0,
               delivered_before |-> -1, delivered |-> -1, steps |-> 0]

NextSession ==
    \/ \E packet \in SessionPackets : SessionSend(packet)
    \/ \E p \in Peers : SessionDamaged(p)
    \/ ServerNext
    \/ \E w \in Workers : WorkerAckWrite(w) \/ WorkerOther(w)

SpecSession == InitSession /\ [][NextSession]_vars

(***************************************************************************)
(* The codec specification: a packet from a constructor is encoded, a bit  *)
(* of the payload may be flipped on the way, and the frame is decoded.     *)
(***************************************************************************)
RECURSIVE SeqsUpTo(_, _)
\* the sequences over S of length at most n
SeqsUpTo(S, n) ==
    IF n = 0 THEN {<<>>}
    ELSE LET shorter == SeqsUpTo(S, n - 1)
         IN  shorter \cup {Append(s, x) : s \in {t \in shorter : Len(t) = n - 1}, x \in S}

\* the payloads: the bytes 0x00, 'A', ':' and 0xFF
CodecPayloads == SeqsUpTo({0, 65, Colon, 255}, MaxPayloadLen)

\* the packets of the CRC-32 codec's constructors
CodecPackets ==
    {create_data_packet(s, p) : s \in {0, 1, 2, 100, 65535, 65536},
                                  p \in CodecPayloads}
    \cup {create_ack_packet(a, s) : a \in {0, 1, 3}, s \in {0, 1}}
    \cup {create_sync_packet(s) : s \in {0, 1}}
    \cup {set_flag(create_sync_packet(s), ACK) : s \in {0, 1}}
    \cup {create_end_packet(0, s) : s \in {3, 100, 101}}
    \cup {set_flag(create_end_packet(0, s), ACK) : s \in {101}}
    \cup {create_error_packet(a, p, 0) : a \in {0, 1}, p \in CodecPayloads}
    \cup {create_operation_packet(1, o, FileX, r) : o \in {UPLOAD, DOWNLOAD},
            r \in {STOP_AND_WAIT, SELECTIVE_REPEAT}}

\* the packets of the digest codec's constructors
DigestPackets ==
    {digest_create_data_packet(s, p) : s \in {0, 1, 65536}, p \in CodecPayloads}
    \cup {digest_create_ack_packet(a, 0) : a \in {0, 1, 3}}
    \cup {digest_create_sync_packet(0, 0), digest_create_end_packet(0, 0)}
    \cup {digest_create_operation_packet(1, o, FileX) : o \in {UPLOAD, DOWNLOAD}}

CodecInit ==
    /\ cpc = "built"
    /\ \/ ccodec = "crc32" /\ cpkt \in CodecPackets
       \/ ccodec = "md5" /\ cpkt \in DigestPackets
    /\ cbytes = <<>>
    /\ cflip = 0
    /\ cdec = None
    /\ eng = None
    /\ ProtoIdle

Encode ==
    /\ cpc = "built"
    /\ cbytes' = IF ccodec = "md5" THEN digest_to_bytes(cpkt) ELSE to_bytes(cpkt)
    /\ cpc' = "encoded"
    /\ UNCHANGED <<cpkt, cflip, cdec, ccodec, eng>>
    /\ UNCHANGED protoVars

FlipBit ==
    /\ cpc = "encoded"
    /\ cflip = 0
    /\ \E k \in 0..(8 * Len(cpkt.payload) - 1) :
          /\ cbytes' = FlipPayloadBit(cbytes, IF ccodec = "md5" THEN RDTHeaderSize ELSE HeaderLen, k)
          /\ cflip' = k + 1
    /\ UNCHANGED <<cpc, cpkt, cdec, ccodec, eng>>
    /\ UNCHANGED protoVars

Decode ==
    /\ cpc = "encoded"
    /\ cdec' = IF ccodec = "md5" THEN digest_decode(cbytes) ELSE from_bytes(cbytes)
    /\ cpc' = "decoded"
    /\ UNCHANGED <<cpkt, cbytes, cflip, ccodec, eng>>
    /\ UNCHANGED protoVars

SpecCodec == CodecInit /\ [][Encode \/ FlipBit \/ Decode]_vars

(***************************************************************************)
(* The engine specification: a Selective Repeat engine is driven on its    *)
(* own.  A receiver (role "rx") is given DATA frames through on_data; a    *)
(* server session in its data phase (role "srv") is given them through     *)
(* handle_data; a sender (role "tx") sends chunks with send_packet, is     *)
(* given ACKs through on_ack and has its timers expire in _check_timeouts. *)
(* The engine starts with an empty window at base0: 2, the first data      *)
(* frame's number, or a number just before the wrap, where a transfer of   *)
(* that many chunks acknowledged in order leaves it.  eng.last is the last *)
(* call: its argument, the engine before it, what it sent and delivered.   *)
(***************************************************************************)
\* the receive window of the engine runs (the source's default is 8)
EngWindow == 4
\* frames given to a receiver in one engine run
MaxEngSteps == 5
\* calls made on a sender in one engine run
MaxEngCalls == 10

InitEngine ==
    /\ cpc = "built"
    /\ cpkt = create_sync_packet(0)
    /\ cbytes = <<>>
    /\ cflip = 0
    /\ cdec = None
    /\ ccodec = "crc32"
    /\ ProtoIdle
    /\ \E role \in {"rx", "srv", "tx"}, base0 \in {2, SeqMod - 2, SeqMod - 1} :
          LET window == IF role = "tx" THEN WindowSize ELSE EngWindow
              proto == [SelectiveRepeatProtocol(SrMaxRetries, window) EXCEPT
                           !.current_seq = base0, !.expected_seq = base0,
                           !.external_ack_handling = (role = "srv")]
          IN  eng = [role |-> role, base0 |-> base0, steps |-> 0, proto |-> proto,
                     cs |-> IF role = "srv"
                            THEN [NewContext EXCEPT
                                     !.connected = TRUE, !.expected_seq = base0,
                                     !.current_operation = UPLOAD,
                                     !.current_filename = FileX,
                                     !.file_handle = "open", !.temp_file_path = 1,
                                     !.proto_name = SELECTIVE_REPEAT, !.proto = proto]
                            ELSE None,
                     acks |-> <<>>, delivered |-> <<>>, arrived |-> {},
                     last |-> [op |-> "none", arg |-> 0, before |-> proto,
                               out |-> <<>>, data |-> <<>>]]

NextEngine ==
    /\ eng.steps < (IF eng.role = "tx" THEN MaxEngCalls ELSE MaxEngSteps)
    /\ UNCHANGED <<cpc, cpkt, cbytes, cflip, cdec, ccodec, protoVars>>
    /\ \/ \* the receiver's on_data, as download_file calls it
          \E d \in (0 - 1)..(EngWindow + 1) :
             LET seq == (eng.base0 + d + SeqMod) % SeqMod
                 packet == create_data_packet(seq, <<seq % 256>>)
                 r == on_data(eng.proto, packet)
             IN  /\ eng.role = "rx"
                 /\ eng' = [eng EXCEPT
                               !.steps = @ + 1, !.proto = r.proto,
                               !.acks = Append(@, r.ack_num),
                               !.delivered = @ \o r.data_to_write,
                               !.arrived =
                                   IF (seq - eng.proto.expected_seq) % SeqMod < EngWindow
                                   THEN @ \cup {seq} ELSE @,
                               !.last = [op |-> "data", arg |-> seq,
                                         before |-> eng.proto,
                                         out |-> <<create_ack_packet(r.ack_num, 0)>>,
                                         data |-> r.data_to_write]]
       \/ \* the server's handle_data in the data phase of an UPLOAD
          \E d \in (0 - 1)..(EngWindow + 1) :
             LET seq == (eng.base0 + d + SeqMod) % SeqMod
                 packet == create_data_packet(seq, <<seq % 256>>)
                 r == handle_transfer(eng.cs, packet)
             IN  /\ eng.role = "srv"
                 /\ eng' = [eng EXCEPT
                               !.steps = @ + 1, !.cs = r.cs, !.proto = r.cs.proto,
                               !.delivered = @ \o r.written,
                               !.arrived = @ \cup {seq},
                               !.last = [op |-> "data", arg |-> seq,
                                         before |-> eng.proto,
                                         out |-> r.out, data |-> r.written]]
       \/ \* send_file fills the window: send_packet of the next chunk
          /\ eng.role = "tx"
          /\ Len(eng.proto.send_window) < eng.proto.window_size
          /\ LET r == sr_send_packet(eng.proto, <<eng.proto.current_seq % 256>>)
             IN  eng' = [eng EXCEPT
                           !.steps = @ + 1, !.proto = r.proto,
                           !.last = [op |-> "send", arg |-> eng.proto.current_seq,
                                     before |-> eng.proto, out |-> r.out,
                                     data |-> <<>>]]
       \/ \* an ACK arrives: on_ack
          \E d \in (0 - 1)..(WindowSize + 1) :
             LET a == (eng.base0 + d + SeqMod) % SeqMod
                 r == sr_on_ack(eng.proto, create_ack_packet(a, 0))
             IN  /\ eng.role = "tx"
                 /\ eng' = [eng EXCEPT
                               !.steps = @ + 1, !.proto = r.proto,
                               !.last = [op |-> "ack", arg |-> a,
                                         before |-> eng.proto, out |-> r.out,
                                         data |-> <<>>]]
       \/ \* the timers of the k oldest timestamps expire: _check_timeouts
          \E k \in 1..WindowSize :
             LET r == sr_check_timeouts(eng.proto, k)
             IN  /\ eng.role = "tx"
                 /\ k <= Len(eng.proto.stamps)
                 /\ eng' = [eng EXCEPT
                               !.steps = @ + 1, !.proto = r.proto,
                               !.last = [op |-> "timeout", arg |-> k,
                                         before |-> eng.proto, out |-> r.out,
                                         data |-> <<>>]]

SpecEngine == InitEngine /\ [][NextEngine]_vars

(***************************************************************************)
(* C1.  An UPLOAD whose send_file reported success and whose FIN the       *)
(* server handled (the client got the FIN|ACK) has stored, under the       *)
(* requested name, a file byte-for-byte equal to the source file F.        *)
(***************************************************************************)
C1_UploadStored ==
    (clients["A"].success = "yes" /\ clients["A"].fin_closed)
        => storage[FileX] = FileOf(clients["A"].file)

(***************************************************************************)
(* C2.  In every reachable state the bytes the receiving side has written  *)
(* to its file are a prefix of the sender's chunks in file order: the temp *)
(* file of an UPLOAD session is a prefix of the client's source file, and  *)
(* the bytes a downloading client wrote are a prefix of the file its       *)
(* session's sender opened.                                                *)
(***************************************************************************)
C2_WrittenIsPrefix ==
    LET IsPrefix(s, t) == Len(s) <= Len(t) /\ SubSeq(t, 1, Len(s)) = s
    IN
    /\ \A c \in CtxIds :
          temps[c].exists =>
              \A p \in Peers :
                  (clients[p].operation = UPLOAD /\ (client_states[p] = c
                      \/ \E w \in Workers : workers[w].ctx = c /\ workers[w].address = p))
                      => IsPrefix(temps[c].data, clients[p].file)
    /\ \A p \in Peers :
          (clients[p].operation = DOWNLOAD /\ client_states[p] # 0
              /\ senders[client_states[p]].pc \in {"wait", "loop", "done"})
              => IsPrefix(clients[p].file, senders[client_states[p]].file)

(***************************************************************************)
(* C3.  The destination name never holds a partial upload: once the        *)
(* UPLOAD session has stored the file (the store starts empty), its        *)
(* content is the complete source file, also when the client's transfer    *)
(* failed and the client then sent its FIN.                                *)
(***************************************************************************)
C3_NoPartialUpload ==
    (clients["A"].operation = UPLOAD /\ storage[FileX].exists)
        => storage[FileX].data = clients["A"].file

(***************************************************************************)
(* C4.  A DOWNLOAD of the existing file X that runs while an UPLOAD of X   *)
(* is finalized streams one complete version of X: the download's sender   *)
(* never finds X missing, and the file it opened is the old X or the new   *)
(* one.                                                                    *)
(***************************************************************************)
C4_DownloadSeesWholeFile ==
    \A c \in CtxIds :
        /\ senders[c].pc # "missing"
        /\ senders[c].pc \in {"wait", "loop", "done", "failed"}
              => senders[c].file \in {OldFile, NewFile}

(***************************************************************************)
(* C5.  Per-peer serialization: at any time at most one pool worker is     *)
(* executing the packet handler for a given peer endpoint.                 *)
(***************************************************************************)
C5_OneHandlerPerPeer ==
    LET \* worker w is executing the packet handler of a peer
        InHandler(w) ==
            workers[w].pc \in {"locked", "read_locked", "fin_wlock", "fin_remove",
                               "fin_rename", "on_ack", "on_ack_miss"}
    IN  \A w1, w2 \in Workers :
            (w1 # w2 /\ InHandler(w1) /\ InHandler(w2))
                => workers[w1].address # workers[w2].address

(***************************************************************************)
(* C6.  While the sender thread of a DOWNLOAD session is running, no pool  *)
(* worker is inside the engine's on_ack for that session: the handlers do  *)
(* not read or write the engine's send state beside the thread.            *)
(***************************************************************************)
C6_SenderExclusive ==
    \A c \in CtxIds, w \in Workers :
        (SenderRunning(c) /\ workers[w].ctx = c)
            => workers[w].pc \notin {"on_ack", "on_ack_miss"}

(***************************************************************************)
(* C7.  A datagram sent by peer A never changes the engine state of        *)
(* another peer B: when a datagram of one peer is taken off the server's   *)
(* socket, the engine of every session whose sender thread serves another  *)
(* peer is left as it was, or as that thread's own turn without the        *)
(* datagram leaves it.                                                     *)
(***************************************************************************)
C7_NoCrossPeerChange ==
    [][\A c \in CtxIds :
          (/\ sock # <<>>
           /\ sock' = Tail(sock)
           /\ senders[c].pc = "loop"
           /\ Head(sock).addr # senders[c].address)
              => \/ ctxs'[c].proto = ctxs[c].proto
                 \/ ctxs'[c].proto = sr_send_turn(SenderOf(c), None, 0).tx.proto]_vars

(***************************************************************************)
(* C8.  A Stop-and-Wait receiver that has delivered the frame with         *)
(* sequence number s answers every replay of that frame, received before   *)
(* the next new frame, with ACK(ack=s), delivers no bytes for it and       *)
(* leaves expected_seq unchanged.                                          *)
(***************************************************************************)
C8_ReplayAcked ==
    (hist.kind = "data" /\ hist.packet.sequence_number = hist.delivered_before)
        => /\ hist.out = <<create_ack_packet(hist.packet.sequence_number, 0)>>
           /\ hist.written = <<>>
           /\ hist.expected_after = hist.expected_before

(***************************************************************************)
(* C9.  Codec round trip: decoding the encoding of a packet built by a     *)
(* constructor gives a packet equal to it in every field (sequence_number, *)
(* ack_number, flags, data_length, payload), and its data_length is the    *)
(* length of its payload.                                                  *)
(***************************************************************************)
C9_RoundTrip ==
    (cpc = "decoded" /\ cflip = 0) =>
        /\ cdec = cpkt
        /\ cdec.data_length = Len(cdec.payload)

(***************************************************************************)
(* C10.  A frame with any single bit of its payload flipped is not         *)
(* decoded, under either codec: from_bytes of the CRC-32 codec returns     *)
(* None, and the packet of the digest codec fails verify_integrity, so no  *)
(* packet is produced.                                                     *)
(***************************************************************************)
C10_BitFlipInvalid ==
    (cpc = "decoded" /\ cflip # 0) => cdec = None

C10_Witness ==
    /\ cpc = "decoded"
    /\ cflip # 0
    /\ Len(cpkt.payload) = MaxPayloadLen
    /\ cdec = None


(***************************************************************************)
(* C11.  A datagram that fails decoding or the integrity check is dropped  *)
(* by the server with no effect: when it is taken off the socket no        *)
(* datagram is sent, no session is created for its source, and every       *)
(* session, engine, worker, lock and file is left as it was.               *)
(***************************************************************************)
C11_DamagedDropped ==
    [][(sock # <<>> /\ Head(sock).data = [corrupt |-> TRUE] /\ sock' = Tail(sock))
          => UNCHANGED <<workers, client_states, ctxs, nctx, temps, storage, rwlock,
                         senders, to_client>>]_vars

\* a damaged datagram was dropped while its source had a session under way
C11_Witness ==
    /\ hist.kind = "dropped"
    /\ \E p \in Peers : client_states[p] # 0 /\ ctxs[client_states[p]].current_operation # <<>>

(***************************************************************************)
(* C12.  When a slot of a Selective Repeat sender exceeds max_retries the  *)
(* transfer is abandoned: the turn of send_file in which a packet that was *)
(* never acknowledged leaves the window on a timeout (nothing was          *)
(* received in that turn) ends send_file with failure.                     *)
(***************************************************************************)
C12_GiveUpFails ==
    [][\A p \in Peers :
          (/\ clients[p].pc = "sr_loop"
           /\ to_client[p] = <<>>
           /\ \E seq \in SeqRange(WindowKeys(clients[p].proto.send_window)) :
                 /\ ~clients[p].proto.ack_received[seq]
                 /\ seq \notin SeqRange(WindowKeys(clients'[p].proto.send_window)))
              => clients'[p].success = "no"]_vars

(***************************************************************************)
(* C13.  A Stop-and-Wait sender gives up on timeouts.  In every step of a  *)
(* client inside Stop-and-Wait's send_file: a timeout with retries already *)
(* at max_retries ends send_file with failure and sends no DATA packet;    *)
(* retries goes back to 0 only when the datagram received is an ACK for    *)
(* current_seq; and a client whose send_file failed sends no DATA packet   *)
(* afterwards.                                                             *)
(***************************************************************************)
C13_SwGivesUp ==
    [][\A p \in Peers :
          LET cl == clients[p]
              sent == IF Len(sock') > Len(sock)
                      THEN SubSeq(sock', Len(sock) + 1, Len(sock')) ELSE <<>>
              NoData == \A i \in 1..Len(sent) :
                            sent[i].addr = p => ~has_flag(sent[i].data, DATA)
          IN  /\ (/\ cl.pc = "sw_wait"
                  /\ to_client[p] = <<>>
                  /\ clients'[p] # cl
                  /\ cl.proto.retries >= cl.proto.max_retries)
                     => (clients'[p].success = "no" /\ NoData)
              /\ (/\ cl.pc = "sw_wait"
                  /\ cl.proto.retries > 0
                  /\ clients'[p].proto.retries = 0)
                     => /\ to_client[p] # <<>>
                        /\ has_flag(Head(to_client[p]), ACK)
                        /\ Head(to_client[p]).ack_number = cl.proto.current_seq
              /\ (cl.operation = UPLOAD /\ cl.protocol = STOP_AND_WAIT
                  /\ cl.success = "no") => NoData]_vars

\* a Stop-and-Wait upload whose send_file gave up after max_retries retransmissions
C13_Witness ==
    \E p \in Peers :
        /\ clients[p].operation = UPLOAD
        /\ clients[p].protocol = STOP_AND_WAIT
        /\ clients[p].success = "no"
        /\ clients[p].proto # None
        /\ clients[p].proto.retries >= clients[p].proto.max_retries
        /\ clients[p].proto.last_sent_packet # None

(***************************************************************************)
(* C14.  A retransmitted operation packet (DATA, seq = 1, the operation    *)
(* the session has negotiated) handled by a session whose operation is     *)
(* already set is answered with ACK(ack = 1), none of its payload is       *)
(* written to the upload file and expected_seq is left unchanged, for      *)
(* stop_and_wait as well as selective_repeat.                              *)
(***************************************************************************)
C14_OperationRetry ==
    (/\ hist.kind = "data"
     /\ hist.packet.sequence_number = 1
     /\ client_states["A"] # 0
     /\ LET cs == ctxs[client_states["A"]]
            op == parse_operation_packet(hist.packet)
        IN  /\ op.operation # <<>>
            /\ op.operation = cs.current_operation
            /\ op.filename = cs.current_filename
            /\ op.protocol = cs.proto_name)
        => /\ hist.out = <<create_ack_packet(1, 0)>>
           /\ hist.written = <<>>
           /\ hist.expected_after = hist.expected_before

(***************************************************************************)
(* C15.  A FIN handled for an UPLOAD session with an open temp file: the   *)
(* handler closes the temp file and goes on to finalize (it does not       *)
(* answer before); and the step in which it leaves _finalize_upload is     *)
(* made under the filename's writer lock, makes the final name hold the    *)
(* temp file's content and the temp file disappear, sends the FIN|ACK with *)
(* sequence_number = FIN.sequence_number + 1 to the peer and removes the   *)
(* peer's entry from the session map.                                      *)
(***************************************************************************)
C15_FinFinalizes ==
    [][\A w \in Workers :
          LET c == workers[w].ctx
              cs == ctxs[c]
              packet == workers[w].packet
              address == workers[w].address
              name == cs.current_filename
          IN  /\ (/\ workers[w].pc = "locked"
                  /\ ~has_flag(packet, SYN) /\ ~has_flag(packet, DATA)
                  /\ has_flag(packet, FIN)
                  /\ cs.current_operation = UPLOAD
                  /\ cs.file_handle = "open"
                  /\ name \in FileNames
                  /\ workers'[w] # workers[w])
                     => /\ workers'[w].pc = "fin_wlock"
                        /\ ctxs'[c].file_handle = "closed"
                        /\ to_client' = to_client
              /\ (workers[w].pc = "fin_wlock" /\ workers'[w] # workers[w])
                     => workers'[w].pc = "fin_remove" /\ rwlock'[name].writer = w
              /\ (workers[w].pc = "fin_remove" /\ workers'[w] # workers[w])
                     => workers'[w].pc = "fin_rename" /\ rwlock'[name].writer = w
              /\ (workers[w].pc = "fin_rename" /\ workers'[w] # workers[w])
                     => /\ workers'[w].pc = "release"
                        /\ rwlock[name].writer = w
                        /\ rwlock'[name].writer = 0
                        /\ storage'[name] = [exists |-> TRUE, data |-> temps[c].data]
                        /\ ~temps'[c].exists
                        /\ ctxs'[c].file_handle = "closed"
                        /\ Len(to_client'[address]) = Len(to_client[address]) + 1
                        /\ LET answer == to_client'[address][Len(to_client'[address])]
                           IN  /\ answer.flags = FIN + ACK
                               /\ answer.sequence_number = packet.sequence_number + 1
                        /\ client_states'[address] = 0]_vars

\* an upload was finalized on its FIN (seq 100): the file is stored with the
\* bytes received, the FIN|ACK has seq 101, the peer has no entry
C15_Witness ==
    /\ hist.kind = "fin"
    /\ hist.packet.sequence_number = 100
    /\ hist.out = <<[create_end_packet(0, 101) EXCEPT !.flags = FIN + ACK]>>
    /\ storage[FileX] \in {FileOf(<<1>>), FileOf(<<1, 2>>)}
    /\ client_states["A"] = 0
    /\ \E w \in Workers : workers[w].pc = "release" /\ temps[workers[w].ctx] = Missing
                          /\ ctxs[workers[w].ctx].file_handle = "closed"

C17_DownloadStartsOnce ==
    [][\A c \in CtxIds :
          /\ senders[c].starts <= 1
          /\ senders'[c].starts <= 1
          /\ senders'[c].starts # senders[c].starts
                => /\ \E w \in Workers :
                         /\ workers[w].pc = "locked"
                         /\ workers[w].ctx = c
                         /\ has_flag(workers[w].packet, ACK)
                         /\ workers[w].packet.ack_number = 1
                   /\ ctxs[c].current_operation = DOWNLOAD
                   /\ ctxs[c].download_ready
                   /\ ~ctxs[c].download_started
                   /\ ctxs'[c].download_started
          /\ (~ctxs[c].download_ready /\ ctxs'[c].download_ready)
                => /\ ctxs'[c].current_operation = DOWNLOAD
                   /\ storage[ctxs'[c].current_filename].exists
          /\ ctxs[c].download_started => ctxs'[c].download_started]_vars

\* a further ACK(1) is being handled in a session whose thread was started
C17_Witness ==
    \E w \in Workers :
        /\ workers[w].pc \in {"on_ack", "on_ack_miss"}
        /\ workers[w].packet.ack_number = 1
        /\ senders[workers[w].ctx].starts = 1
        /\ ctxs[workers[w].ctx].download_started

(***************************************************************************)
(* C18.  An operation answered with ERR is aborted: in a session whose     *)
(* DOWNLOAD was refused (the operation is set and the session was never    *)
(* marked ready), no handler of a DATA packet answers an ACK with          *)
(* ack_number 1, and no sender thread is started.                          *)
(***************************************************************************)
C18_ErrAborts ==
    \A p \in Peers :
        (/\ client_states[p] # 0
         /\ ctxs[client_states[p]].current_operation = DOWNLOAD
         /\ ~ctxs[client_states[p]].download_ready
         /\ hist.kind = "data")
            => /\ \A i \in 1..Len(hist.out) :
                     ~(has_flag(hist.out[i], ACK) /\ hist.out[i].ack_number = 1)
               /\ senders[client_states[p]].starts = 0

(***************************************************************************)
(* C19.  Every entry of the session map is eventually removed: whenever    *)
(* client_states holds a context for a peer, later it holds none.          *)
(***************************************************************************)
C19_SessionsRemoved ==
    \A p \in Peers : (client_states[p] # 0) ~> (client_states[p] = 0)

(***************************************************************************)
(* C20.  Handshake failure: once the client has used up its SYN attempts   *)
(* without a SYN|ACK (connect_server returned False and the main closed    *)
(* the socket without a FIN), every datagram it ever sent is a SYN, and    *)
(* the server's session map holds no entry for it.                         *)
(***************************************************************************)
C20_HandshakeFailure ==
    (clients["A"].pc = "closed" /\ clients["A"].fin_attempt = 0)
        => /\ \A i \in 1..Len(sock) :
                 sock[i].addr = "A" => sock[i].data = Datagram(create_sync_packet(0))
           /\ \A w \in Workers :
                 workers[w].address = "A" => workers[w].packet = create_sync_packet(0)
           /\ client_states["A"] = 0

(***************************************************************************)
(* C21.  Reader-writer exclusion per filename.  While a finalization is    *)
(* inside write_lock(X) (between acquire_write and release_write), no      *)
(* handler is inside read_lock(X), the reader count of X is 0 and no other *)
(* finalization is inside write_lock(X); the reader count is the number of *)
(* handlers inside read_lock; and a finalization enters write_lock(X) only *)
(* in a state without readers of X.                                        *)
(***************************************************************************)
C21_ReaderWriterExclusion ==
    [][LET Writing(w, n) == /\ workers[w].pc \in {"fin_remove", "fin_rename"}
                            /\ ctxs[workers[w].ctx].current_filename = n
           Reading(w, n) == /\ workers[w].pc = "read_locked"
                            /\ parse_operation_packet(workers[w].packet).filename = n
       IN  \A n \in FileNames :
              /\ rwlock[n].readers = Cardinality({w \in Workers : Reading(w, n)})
              /\ \A w \in Workers :
                    /\ Writing(w, n)
                          => /\ rwlock[n].readers = 0
                             /\ \A v \in Workers : ~Reading(v, n)
                             /\ \A v \in Workers \ {w} : ~Writing(v, n)
                    /\ (workers[w].pc = "fin_wlock" /\ workers'[w].pc = "fin_remove"
                        /\ ctxs[workers[w].ctx].current_filename = n)
                          => /\ rwlock[n].readers = 0
                             /\ \A v \in Workers : ~Reading(v, n)]_vars

\* a finalization of X waits at acquire_write while a download's handler is
\* inside read_lock(X)
C21_Witness ==
    \E w, v \in Workers :
        /\ workers[w].pc = "fin_wlock"
        /\ ctxs[workers[w].ctx].current_filename = FileX
        /\ workers[v].pc = "read_locked"
        /\ parse_operation_packet(workers[v].packet).filename = FileX
        /\ rwlock[FileX].readers = 1

(***************************************************************************)
(* C22.  Teardown is bounded on the uploading client.  The FINs it sends   *)
(* are counted by fin_attempt, which never exceeds max_fin_attempts; each  *)
(* wait for the FIN|ACK makes at most its bound of receive attempts; and a *)
(* client that waits for the FIN|ACK always comes to close its socket,     *)
(* with or without a FIN|ACK.                                              *)
(***************************************************************************)
C22_TeardownBounded ==
    /\ [](clients["A"].fin_attempt <= FinAttempts
          /\ (clients["A"].pc = "fin_wait" => clients["A"].attempt <= FinWaitAttempts))
    /\ [][LET IsFin(d) == d.addr = "A" /\ d.data = Datagram(fin_packet)
              Fins(q) == Cardinality({i \in 1..Len(q) : IsFin(q[i])})
          IN  (Len(sock') > Len(sock) /\ Fins(sock') > Fins(sock))
                  => /\ Fins(sock') = Fins(sock) + 1
                     /\ clients'["A"].fin_attempt = clients["A"].fin_attempt + 1
                     /\ clients'["A"].pc = "fin_wait"]_vars
    /\ (clients["A"].pc = "fin_wait") ~> (clients["A"].pc = "closed")

\* the client closed after its last FIN although no FIN|ACK ever reached it
C22_Witness ==
    /\ clients["A"].pc = "closed"
    /\ clients["A"].fin_attempt = FinAttempts
    /\ ~clients["A"].fin_closed
    /\ lost = 1

(***************************************************************************)
(* C23.  A Stop-and-Wait sender moves from chunk k to chunk k+1 only after *)
(* the receiver has delivered chunk k.  For the uploading client: a step   *)
(* that flips current_seq takes from the socket an ACK whose ack_number is *)
(* current_seq, and at that step the chunk in flight (the file's bytes are *)
(* all different) is in the temp file of a session of the server.          *)
(***************************************************************************)
C23_AdvanceAfterDelivery ==
    [][LET cl == clients["A"]
       IN  (/\ cl.pc = "sw_wait"
            /\ cl.operation = UPLOAD
            /\ clients'["A"].proto.current_seq # cl.proto.current_seq)
               => /\ to_client["A"] # <<>>
                  /\ has_flag(Head(to_client["A"]), ACK)
                  /\ Head(to_client["A"]).ack_number = cl.proto.current_seq
                  /\ \E c \in CtxIds :
                        \E i \in 1..Len(temps[c].data) :
                            temps[c].data[i] = cl.file[cl.pos]]_vars


(***************************************************************************)
(* C24 -- the receive rules of Selective Repeat.  After on_data of a DATA  *)
(* frame seq on a receiver whose base is rcv_base: the answer is           *)
(* ACK(ack = seq) in every case; if seq is in [rcv_base, rcv_base + W) its *)
(* payload was buffered, so it is either still in receive_window under seq *)
(* or it left in this call's delivery; if seq is below rcv_base or beyond  *)
(* the window the call delivers nothing and leaves the receiver as it was  *)
(* (nothing buffered, rcv_base in place).                                  *)
(***************************************************************************)
C24_ReceiveRules ==
    (eng # None /\ eng.role = "rx" /\ eng.last.op = "data") =>
        LET seq == eng.last.arg
            before == eng.last.before
            rcv_base == before.expected_seq
            payload == <<seq % 256>>
        IN  /\ eng.last.out = <<create_ack_packet(seq, 0)>>
            /\ IF (seq - rcv_base) % SeqMod < before.window_size
               THEN \/ /\ seq \in DOMAIN eng.proto.receive_window
                       /\ eng.proto.receive_window[seq] = payload
                       /\ eng.last.data = <<>>
                       /\ seq # rcv_base
                    \/ /\ seq \notin DOMAIN eng.proto.receive_window
                       /\ \E i \in 1..Len(eng.last.data) :
                             /\ eng.last.data[i] = payload[1]
                             /\ (rcv_base + i - 1) % SeqMod = seq
               ELSE /\ eng.last.data = <<>>
                    /\ eng.proto = before

\* a frame below the base and a frame beyond the window have both arrived at a
\* receiver that holds a buffered frame
C24_Witness ==
    /\ eng # None /\ eng.role = "rx" /\ eng.last.op = "data"
    /\ DOMAIN eng.proto.receive_window # {}
    /\ (eng.last.arg - eng.proto.expected_seq) % SeqMod >= EngWindow
    /\ (eng.proto.expected_seq - eng.last.arg) % SeqMod = 1
    /\ \E i \in 1..Len(eng.acks) :
          (eng.acks[i] - eng.base0) % SeqMod = EngWindow + 1


(***************************************************************************)
(* C25 -- the Selective Repeat receiver flushes strictly in sequence.      *)
(* Whatever frames have arrived so far, in whatever order and with         *)
(* whatever repeats, the payloads the on_data calls returned, concatenated,*)
(* are those of base0, base0 + 1, ... in that order, once each; the        *)
(* delivery stops at the first number that has not arrived in the window   *)
(* (a gap holds back every later frame, which stays buffered), and         *)
(* rcv_base is one past the last delivered frame.                          *)
(***************************************************************************)
C25_FlushInSequence ==
    (eng # None /\ eng.role = "rx") =>
        LET n == Len(eng.delivered)
            Nth(i) == (eng.base0 + i - 1) % SeqMod
            Delivered == {Nth(i) : i \in 1..n}
        IN  /\ eng.delivered = [i \in 1..n |-> Nth(i) % 256]
            /\ Delivered \subseteq eng.arrived
            /\ Nth(n + 1) \notin eng.arrived
            /\ eng.proto.expected_seq = Nth(n + 1)
            /\ DOMAIN eng.proto.receive_window = eng.arrived \ Delivered

\* frames 3, 4, 2, 5 from base 2 with a window of 4: ACKs 3, 4, 2, 5, delivery
\* 2, 3, 4, 5 and base 6
C25_Witness ==
    /\ eng # None /\ eng.role = "rx" /\ eng.base0 = 2
    /\ eng.proto.window_size = 4
    /\ eng.acks = <<3, 4, 2, 5>>
    /\ eng.delivered = <<2, 3, 4, 5>>
    /\ eng.last.data = <<5>>
    /\ eng.proto.expected_seq = 6


(***************************************************************************)
(* C26 -- ACK handling of the Selective Repeat sender.  After on_data's    *)
(* counterpart on_ack of ACK(s): if s is not a slot of the send window     *)
(* nothing changes and nothing is sent; if it is, s is marked acknowledged *)
(* (or has left the window, freed by the slide); if s is the base, the     *)
(* oldest slot of the window in circular order, the slots freed are        *)
(* exactly the contiguous acknowledged ones from the base on; if s is not  *)
(* the base no slot is freed.                                              *)
(***************************************************************************)
C26_AckHandling ==
    (eng # None /\ eng.role = "tx" /\ eng.last.op = "ack") =>
        LET s == eng.last.arg
            before == eng.last.before
            Keys(proto) == SeqRange(WindowKeys(proto.send_window))
            Age(k) == (k - eng.base0) % SeqMod
            base == CHOOSE k \in Keys(before) : \A j \in Keys(before) : Age(k) <= Age(j)
            Acked(k) == k = s \/ before.ack_received[k]
            Run == {k \in Keys(before) :
                       \A j \in Keys(before) : Age(j) <= Age(k) =>
                           /\ Acked(j)
                           /\ Age(j) - Age(base) =
                                  Cardinality({i \in Keys(before) : Age(i) < Age(j)})}
            freed == Keys(before) \ Keys(eng.proto)
        IN  IF s \notin Keys(before)
            THEN eng.proto = before /\ eng.last.out = <<>>
            ELSE /\ Keys(eng.proto) \subseteq Keys(before)
                 /\ s \in Keys(eng.proto) => eng.proto.ack_received[s]
                 /\ s = base => freed = Run
                 /\ s # base => freed = {}


(***************************************************************************)
(* C27 -- the Selective Repeat send window.  At every state of a sender    *)
(* the send window holds at most window_size packets, and every            *)
(* outstanding (sent, not acknowledged, still in the window) sequence      *)
(* number s has (s - base) mod 2^16 < window_size, where base is the       *)
(* oldest outstanding number; and a frame just sent by send_packet lies in *)
(* [base, base + W) of the base before the call.                           *)
(***************************************************************************)
C27_SendWindowBound ==
    (eng # None /\ eng.role = "tx") =>
        LET Age(k) == (k - eng.base0) % SeqMod
            Outstanding(proto) ==
                {k \in SeqRange(WindowKeys(proto.send_window)) : ~proto.ack_received[k]}
            Base(proto) ==
                IF Outstanding(proto) = {} THEN proto.current_seq
                ELSE CHOOSE k \in Outstanding(proto) :
                         \A j \in Outstanding(proto) : Age(k) <= Age(j)
        IN  /\ Len(eng.proto.send_window) <= eng.proto.window_size
            /\ \A s \in Outstanding(eng.proto) :
                  (s - Base(eng.proto)) % SeqMod < eng.proto.window_size
            /\ eng.last.op = "send" =>
                  (eng.last.arg - Base(eng.last.before)) % SeqMod
                      < eng.proto.window_size


(***************************************************************************)
(* C28 -- fast retransmit of Selective Repeat.  After on_ack of an ACK for *)
(* a slot s that is in the send window and was acknowledged before (a      *)
(* duplicate ACK): when it is the third duplicate received for s, the      *)
(* call has sent the packet of s again, with the sequence number and       *)
(* payload it was first sent with; when the duplicates number fewer than   *)
(* three, or the ACK is the first for s, the call has sent nothing.        *)
(***************************************************************************)
C28_FastRetransmit ==
    (eng # None /\ eng.role = "tx" /\ eng.last.op = "ack") =>
        LET s == eng.last.arg
            before == eng.last.before
            InWindow == s \in SeqRange(WindowKeys(before.send_window))
            duplicates == IF InWindow /\ before.ack_received[s]
                          THEN before.duplicate_ack_count[s] + 1 ELSE 0
        IN  /\ duplicates = 3 => eng.last.out = <<create_data_packet(s, <<s % 256>>)>>
            /\ duplicates < 3 => eng.last.out = <<>>


(***************************************************************************)
(* C29 -- after a Selective Repeat send_file has returned.  In the step in *)
(* which the uploading client leaves the send loop (send_file returns),    *)
(* its engine's send window is empty, no timer and no ack_received entry   *)
(* remains, and so no sequence number below current_seq is outstanding:    *)
(* the base equals the next number to send.                                *)
(***************************************************************************)
C29_WindowEmptyAfterSend ==
    [][(clients["A"].pc = "sr_loop" /\ clients'["A"].pc # "sr_loop") =>
          LET proto == clients'["A"].proto
          IN  /\ proto.kind = "selective_repeat"
              /\ proto.send_window = <<>>
              /\ proto.stamps = <<>>
              /\ DOMAIN proto.ack_received = {}]_vars

\* send_file has returned after sending the whole file, with a datagram lost on
\* the way
C29_Witness ==
    /\ clients["A"].protocol = SELECTIVE_REPEAT
    /\ clients["A"].pc = "fin_wait"
    /\ clients["A"].success = "yes"
    /\ Len(clients["A"].file) = MaxFileLen
    /\ clients["A"].eof
    /\ clients["A"].proto.send_window = <<>>
    /\ clients["A"].proto.current_seq > 2
    /\ lost = MaxLoss


(***************************************************************************)
(* C30 -- circular sequence arithmetic of Selective Repeat.  On the        *)
(* server, a DATA frame whose number lies in the receive window            *)
(* [rcv_base, rcv_base + W) taken modulo 2^16, the frames 0 and 1 after    *)
(* the wrap included, is answered with ACK(ack = seq) and accepted: its    *)
(* payload is delivered by this call or buffered.  On the sender, the      *)
(* slide a first ACK causes frees slots in circular order from the base:   *)
(* no slot is freed while an older slot of the window stays.               *)
(***************************************************************************)
C30_CircularSequence ==
    /\ (eng # None /\ eng.role = "srv" /\ eng.last.op = "data") =>
          LET seq == eng.last.arg
              rcv_base == eng.last.before.expected_seq
          IN  (seq - rcv_base) % SeqMod < eng.proto.window_size =>
                 /\ eng.last.out = <<create_ack_packet(seq, 0)>>
                 /\ \/ seq \in DOMAIN eng.proto.receive_window
                    \/ \E i \in 1..Len(eng.last.data) :
                          /\ eng.last.data[i] = seq % 256
                          /\ (rcv_base + i - 1) % SeqMod = seq
    /\ (eng # None /\ eng.role = "tx" /\ eng.last.op = "ack") =>
          LET s == eng.last.arg
              before == eng.last.before
              Keys(proto) == SeqRange(WindowKeys(proto.send_window))
              Age(k) == (k - eng.base0) % SeqMod
              freed == Keys(before) \ Keys(eng.proto)
          IN  (s \in Keys(before) /\ ~before.ack_received[s]) =>
                 \A f \in freed : \A k \in Keys(before) :
                     Age(k) < Age(f) => k \in freed


(***************************************************************************)
(* C31 -- the operation packet.  A session takes an operation (its         *)
(* current_operation goes from none to set) only in a handle_data of a     *)
(* packet with sequence number 1 on a connected session whose expected_seq *)
(* is 1.  When it handles such an operation packet, the session records    *)
(* operation, filename and protocol, holds the engine chosen with          *)
(* expected_seq 0 (stop_and_wait) or 2 (selective_repeat), has the temp    *)
(* file staged (UPLOAD) or the stored file there (DOWNLOAD), and ACK(1) is *)
(* among the answers.  A first DATA packet with another sequence number    *)
(* gets no answer and changes nothing.                                     *)
(***************************************************************************)
C31_OperationPacket ==
    [][LET c == client_states["A"]
           before == ctxs[c]
           after == ctxs'[c]
           packet == hist'.packet
           op == parse_operation_packet(packet)
       IN  ((\E w \in Workers : workers[w].pc # "idle" /\ workers'[w].pc = "idle")
            /\ hist'.kind \in {"ignored", "operation", "data"}) =>
              /\ (before.current_operation = <<>> /\ after.current_operation # <<>>) =>
                     /\ before.connected
                     /\ before.expected_seq = 1
                     /\ packet.sequence_number = 1
              /\ (hist'.kind = "operation" /\ before.expected_seq = 1
                  /\ packet.sequence_number = 1
                  /\ op.operation # <<>> /\ op.filename # <<>>) =>
                     /\ after.current_operation = op.operation
                     /\ after.current_filename = op.filename
                     /\ after.proto_name = op.protocol
                     /\ op.protocol = STOP_AND_WAIT =>
                            after.proto.kind = "stop_and_wait" /\ after.expected_seq = 0
                     /\ op.protocol = SELECTIVE_REPEAT =>
                            after.proto.kind = "selective_repeat" /\ after.expected_seq = 2
                     /\ op.operation = UPLOAD =>
                            after.temp_file_path = c /\ temps'[c].exists
                     /\ op.operation = DOWNLOAD => storage[op.filename].exists
                     /\ \E i \in 1..Len(hist'.out) : hist'.out[i] = create_ack_packet(1, 0)
              /\ (hist'.kind = "operation"
                  /\ (before.expected_seq # 1 \/ packet.sequence_number # 1)) =>
                     /\ hist'.out = <<>>
                     /\ [after EXCEPT !.lock = before.lock] = before
                     /\ temps' = temps /\ storage' = storage]_vars


(***************************************************************************)
(* C32 -- a SYN on a session that is not connected.  In the step in which  *)
(* a worker finishes handle_syn on a session that was not connected, the   *)
(* session becomes connected with expected_seq = 1, no operation and no    *)
(* engine, and exactly one datagram, SYN|ACK, is sent to the peer.         *)
(***************************************************************************)
C32_SynConnects ==
    [][\A w \in Workers :
          (/\ workers[w].pc = "locked"
           /\ has_flag(workers[w].packet, SYN)
           /\ workers'[w].pc = "idle"
           /\ ~ctxs[workers[w].ctx].connected) =>
              LET c == workers[w].ctx
                  address == workers[w].address
              IN  /\ ctxs'[c].connected
                  /\ ctxs'[c].expected_seq = 1
                  /\ ctxs'[c].current_operation = <<>>
                  /\ ctxs'[c].proto = None
                  /\ to_client'[address] =
                         Append(to_client[address],
                                Datagram(set_flag(create_sync_packet(0), ACK)))]_vars

\* a SYN has connected a second session of the peer, after a FIN removed the first
C32_Witness ==
    /\ hist.kind = "syn"
    /\ client_states["A"] = 2
    /\ ctxs[2].connected /\ ctxs[2].expected_seq = 1
    /\ hist.expected_before = 0
    /\ ctxs[1].connected


(***************************************************************************)
(* C33 -- sequence guardrails of the data phase.  In the step in which a   *)
(* worker finishes handle_data on a session with an operation, for a DATA  *)
(* packet whose sequence number is not 0 or 1 (stop_and_wait session) or   *)
(* is below 2 (selective_repeat session): nothing is sent to the peer,     *)
(* nothing is written, and the session (expected_seq and engine included), *)
(* the temp files and the storage are as before.                           *)
(***************************************************************************)
C33_SequenceGuardrails ==
    [][\A w \in Workers :
          LET c == workers[w].ctx
              seq_num == workers[w].packet.sequence_number
          IN  (/\ workers[w].pc = "locked"
               /\ workers'[w].pc = "idle"
               /\ ~has_flag(workers[w].packet, SYN)
               /\ has_flag(workers[w].packet, DATA)
               /\ ctxs[c].connected
               /\ ctxs[c].current_operation # <<>>
               /\ \/ ctxs[c].proto_name = STOP_AND_WAIT /\ seq_num \notin {0, 1}
                  \/ ctxs[c].proto_name = SELECTIVE_REPEAT /\ seq_num < 2) =>
                  /\ to_client' = to_client
                  /\ [ctxs'[c] EXCEPT !.lock = ctxs[c].lock] = ctxs[c]
                  /\ temps' = temps
                  /\ storage' = storage
                  /\ hist'.out = <<>> /\ hist'.written = <<>>]_vars

\* a selective_repeat upload that has delivered frame 2 has dropped a frame
\* with sequence number 1
C33_Witness ==
    /\ hist.kind = "data" /\ hist.out = <<>>
    /\ client_states["A"] # 0
    /\ LET cs == ctxs[client_states["A"]]
       IN  /\ cs.current_operation = UPLOAD
           /\ cs.proto_name = SELECTIVE_REPEAT
           /\ hist.packet.sequence_number = 1
           /\ cs.expected_seq = 3


(***************************************************************************)
(* C34 -- DATA on a session that is not connected.  In the step in which a *)
(* worker finishes handling a DATA packet whose session is not connected   *)
(* (a session just created for the packet, also after a FIN removed the    *)
(* peer's earlier session), no datagram is sent to any peer and the        *)
(* session, the temp files and the storage are as before: no operation, no *)
(* engine, no file and no sequence state is created or changed.            *)
(***************************************************************************)
C34_UnconnectedDataDropped ==
    [][\A w \in Workers :
          LET c == workers[w].ctx
          IN  (/\ workers[w].pc = "locked"
               /\ workers'[w].pc = "idle"
               /\ ~has_flag(workers[w].packet, SYN)
               /\ has_flag(workers[w].packet, DATA)
               /\ ~ctxs[c].connected) =>
                  /\ to_client' = to_client
                  /\ [ctxs'[c] EXCEPT !.lock = ctxs[c].lock] = ctxs[c]
                  /\ ctxs'[c].current_operation = <<>>
                  /\ ctxs'[c].proto = None
                  /\ ctxs'[c].expected_seq = 0
                  /\ ctxs'[c].file_handle = "none"
                  /\ temps' = temps
                  /\ storage' = storage
                  /\ senders' = senders]_vars

\* an operation packet was dropped on the second session of the peer, created
\* for it after a FIN tore down the first, connected one
C34_Witness ==
    /\ hist.kind = "ignored"
    /\ has_flag(hist.packet, DATA)
    /\ hist.packet.sequence_number = 1
    /\ parse_operation_packet(hist.packet).operation = UPLOAD
    /\ hist.out = <<>>
    /\ client_states["A"] = 2
    /\ ~ctxs[2].connected
    /\ ctxs[1].connected
    /\ \A w \in Workers : workers[w].pc = "idle"


(***************************************************************************)
(* C35 -- no retransmission of an acknowledged packet.  After              *)
(* _check_timeouts, and after on_ack (fast retransmit), of a Selective     *)
(* Repeat sender: every packet the call sent belongs to a slot for which   *)
(* no ACK had been received before the call, and only such slots had their *)
(* retries counted up.                                                     *)
(***************************************************************************)
C35_NoRetransmitOfAcked ==
    (eng # None /\ eng.role = "tx" /\ eng.last.op \in {"timeout", "ack"}) =>
        LET before == eng.last.before
            Acked(seq) == seq \in DOMAIN before.ack_received /\ before.ack_received[seq]
        IN  /\ \A i \in 1..Len(eng.last.out) :
                  ~Acked(eng.last.out[i].sequence_number)
            /\ \A i \in 1..Len(before.send_window) :
                  \A j \in 1..Len(eng.proto.send_window) :
                      (/\ before.send_window[i].seq = eng.proto.send_window[j].seq
                       /\ eng.proto.send_window[j].retries > before.send_window[i].retries)
                          => ~Acked(before.send_window[i].seq)


(***************************************************************************)
(* C36 -- a Selective Repeat receiver acknowledges only what it keeps.     *)
(* After on_data (client) or the data phase of handle_data (server) of a   *)
(* frame s: if ACK(ack = s) was sent, the payload of s is buffered in      *)
(* receive_window or s lies behind rcv_base, among the frames delivered.   *)
(***************************************************************************)
C36_AckOnlyKept ==
    (eng # None /\ eng.role \in {"rx", "srv"} /\ eng.last.op = "data") =>
        LET s == eng.last.arg
            rcv_base == eng.proto.expected_seq
        IN  (\E i \in 1..Len(eng.last.out) : eng.last.out[i] = create_ack_packet(s, 0)) =>
               \/ s \in DOMAIN eng.proto.receive_window
               \/ (rcv_base - s) % SeqMod \in 1..(SeqMod \div 2)


(***************************************************************************)
(* C37 -- an UPLOAD chunk is acknowledged only once written.  In the step  *)
(* in which a worker finishes handle_data in the data phase of an UPLOAD:  *)
(* if the session's expected_seq advanced, the temp file has grown by the  *)
(* bytes delivered; and if the write failed (ERR 005 was sent), no ACK was *)
(* sent to the peer and expected_seq is as before.                         *)
(***************************************************************************)
C37_AckAfterWrite ==
    [][\A w \in Workers :
          LET c == workers[w].ctx
              address == workers[w].address
              sent == SubSeq(to_client'[address], Len(to_client[address]) + 1,
                             Len(to_client'[address]))
              IsErr005(d) == d = Datagram(create_error_packet(ctxs[c].expected_seq,
                                                              <<48, 48, 53, Colon>>, 0))
              IsAck(d) == \E a \in 0..3 : d = Datagram(create_ack_packet(a, 0))
          IN  (/\ workers[w].pc = "locked"
               /\ workers'[w].pc = "idle"
               /\ ~has_flag(workers[w].packet, SYN)
               /\ has_flag(workers[w].packet, DATA)
               /\ ctxs[c].connected
               /\ ctxs[c].current_operation = UPLOAD) =>
                  /\ ctxs'[c].expected_seq # ctxs[c].expected_seq =>
                         /\ temps'[c].exists
                         /\ Len(temps'[c].data) > Len(temps[c].data)
                         /\ SubSeq(temps'[c].data, 1, Len(temps[c].data)) = temps[c].data
                  /\ (\E i \in 1..Len(sent) : IsErr005(sent[i])) =>
                         /\ \A i \in 1..Len(sent) : ~IsAck(sent[i])
                         /\ ctxs'[c].expected_seq = ctxs[c].expected_seq]_vars


(***************************************************************************)
(* C38 -- a SYN on a session with an operation.  In the step in which a    *)
(* worker finishes handle_syn on a session whose operation is negotiated,  *)
(* the session's expected_seq, operation, filename, protocol and engine    *)
(* are as before.                                                          *)
(***************************************************************************)
C38_LateSynHarmless ==
    [][\A w \in Workers :
          LET c == workers[w].ctx
          IN  (/\ workers[w].pc = "locked"
               /\ workers'[w].pc = "idle"
               /\ has_flag(workers[w].packet, SYN)
               /\ ctxs[c].current_operation # <<>>) =>
                  /\ ctxs'[c].expected_seq = ctxs[c].expected_seq
                  /\ ctxs'[c].current_operation = ctxs[c].current_operation
                  /\ ctxs'[c].current_filename = ctxs[c].current_filename
                  /\ ctxs'[c].proto_name = ctxs[c].proto_name
                  /\ ctxs'[c].proto = ctxs[c].proto]_vars


\* ---------------------------------------------------------------------------
\* A Stop-and-Wait DOWNLOAD over a network that loses at most MaxLoss datagrams.
\* Peer A requests the stored file; the server's sender thread streams it.
\* Timers fire only when nothing else can happen: a receive timeout of the
\* client needs an idle server (no datagram queued, no worker busy, no sender
\* step possible), and the sender's retransmission timer needs the client to
\* have read everything sent to it. Every datagram that is not lost is
\* therefore delivered before any timer expires.
InitFetch ==
    /\ CodecIdle
    /\ sock = <<>>
    /\ workers = [w \in Workers |-> IdleWorker]
    /\ client_states = [p \in Peers |-> 0]
    /\ ctxs = [c \in CtxIds |-> NewContext]
    /\ nctx = 0
    /\ temps = [c \in CtxIds |-> Missing]
    /\ storage = [n \in FileNames |-> FileOf(OldFile)]
    /\ rwlock = [n \in FileNames |-> [readers |-> 0, writer |-> 0]]
    /\ senders = [c \in CtxIds |-> NoSender]
    /\ to_client = [p \in Peers |-> <<>>]
    /\ clients = [p \in Peers |-> IF p = "A"
                                   THEN NewClient(DOWNLOAD, STOP_AND_WAIT, <<>>)
                                   ELSE OffClient]
    /\ lost = 0
    /\ hist = HistOff

NextFetch ==
    \* the workers' steps; the three steps that finalize an UPLOAD are left
    \* out, no session of this specification has a temp file to move
    \/ \E w \in Workers :
          \/ WorkerTake(w)
          \/ WorkerAcquire(w)
          \/ WorkerSyn(w)
          \/ WorkerData(w)
          \/ WorkerFin(w)
          \/ WorkerRelease(w)
          \/ WorkerAck(w)
          \/ WorkerAckWrite(w)
    \/ \E c \in CtxIds : SenderOpen(c)
    \/ \E c \in CtxIds : SenderSwAcked(c)
    \/ to_client["A"] = <<>> /\ \E c \in CtxIds : SenderSwTimeout(c)
    \/ ClientStart("A")
    \/ ClientRecv("A")
    \/ /\ sock = <<>>
       /\ \A w \in Workers : workers[w] = IdleWorker
       /\ \A c \in CtxIds : senders[c].pc \notin {"open", "wait"}
       /\ ClientTimeout("A")
    \/ LoseToServer
    \/ LoseToClient("A")

SpecFetch ==
    /\ InitFetch
    /\ [][NextFetch]_vars
    /\ WF_vars(NextFetch /\ lost' = lost)

\* C39: a DOWNLOAD whose session loses at most one datagram ends with the
\* client holding the complete stored file and reporting success. The session
\* starts when the client's connect succeeded.
C39_DownloadSurvivesOneLoss ==
    (clients["A"].pc = "op_wait")
        ~> (clients["A"].success = "yes" /\ clients["A"].dest = FileOf(OldFile))

\* ---------------------------------------------------------------------------
\* Two peers upload to the same name X at the same time, Stop-and-Wait, on a
\* network that loses nothing. The streams of A and of B share no byte, so a
\* stored file mixing them would show.
InitRace ==
    /\ CodecIdle
    /\ sock = <<>>
    /\ workers = [w \in Workers |-> IdleWorker]
    /\ client_states = [p \in Peers |-> 0]
    /\ ctxs = [c \in CtxIds |-> NewContext]
    /\ nctx = 0
    /\ temps = [c \in CtxIds |-> Missing]
    /\ storage \in [FileNames -> {Missing, FileOf(OldFile)}]
    /\ rwlock = [n \in FileNames |-> [readers |-> 0, writer |-> 0]]
    /\ senders = [c \in CtxIds |-> NoSender]
    /\ to_client = [p \in Peers |-> <<>>]
    /\ \E a \in {<<1>>, <<1, 2>>}, b \in {<<3>>, <<3, 4>>} :
          clients = [p \in Peers |-> NewClient(UPLOAD, STOP_AND_WAIT,
                                               IF p = "A" THEN a ELSE b)]
    /\ lost = 0
    /\ hist = HistOff

NextRace ==
    \/ ServerNext
    \/ \E p \in Peers : ClientStart(p)
    \/ \E p \in Peers : ClientRecv(p)

SpecRace == InitRace /\ [][NextRace]_vars

====
